---- MODULE Spec2Model ----
(***************************************************************************)
(* Model of terminal_chat/cli.py: ConversationManager (the bounded        *)
(* conversation buffer) and OpenRouterClient.chat_stream (the streaming   *)
(* decoder with its interrupt flag).                                      *)
(***************************************************************************)
EXTENDS Integers, Sequences, FiniteSets, TLC

(***************************************************************************)
(* Bounds of the model.                                                    *)
(***************************************************************************)
\* Largest capacity max_messages tried.
MaxCap == 3
\* Largest number of add_message calls in one behaviour.
MaxAdds == 5
\* Largest number of mutations a caller makes through a returned list.
MaxMut == 1
\* Largest number of chat_stream calls and response lines in one behaviour,
\* counted together: one call of three lines, two calls of one line, ...
MaxWork == 4

\* The default capacity of ConversationManager.
DefaultMaxMessages == 20

Roles == {"system", "user", "assistant"}

\* Contents the k-th add_message call may carry: a repeated text or a fresh one.
Contents(k) == {"S", ToString(k - 1)}

Message(role, content) == [role |-> role, content |-> content]

(***************************************************************************)
(* Texts.  A line of the response is the sequence of its characters, so    *)
(* that startswith, slicing and comparison are computed as the code does.  *)
(***************************************************************************)
DataPrefix == <<"d", "a", "t", "a", ":", " ">>

DoneToken == <<"[", "D", "O", "N", "E", "]">>

\* An SSE comment line, ": ping".
CommentLine == <<":", " ", "p", "i", "n", "g">>

BlankLine == <<>>

\* {"choices":[{"delta":{"content":"A"}}]}
JsonContentA ==
    <<"{", "\"", "c", "h", "o", "i", "c", "e", "s", "\"", ":", "[", "{",
      "\"", "d", "e", "l", "t", "a", "\"", ":", "{", "\"", "c", "o", "n",
      "t", "e", "n", "t", "\"", ":", "\"", "A", "\"", "}", "}", "]", "}">>

\* {"choices":[{"delta":{"content":"B"}}]}
JsonContentB ==
    <<"{", "\"", "c", "h", "o", "i", "c", "e", "s", "\"", ":", "[", "{",
      "\"", "d", "e", "l", "t", "a", "\"", ":", "{", "\"", "c", "o", "n",
      "t", "e", "n", "t", "\"", ":", "\"", "B", "\"", "}", "}", "]", "}">>

\* {"choices":[{"delta":{}}]}
JsonEmptyDelta ==
    <<"{", "\"", "c", "h", "o", "i", "c", "e", "s", "\"", ":", "[", "{",
      "\"", "d", "e", "l", "t", "a", "\"", ":", "{", "}", "}", "]", "}">>

\* {"choices":[{"delta":{"content":""}}],"usage":{"prompt_tokens":3,"completion_tokens":5}}
JsonEmptyContentUsage ==
    <<"{", "\"", "c", "h", "o", "i", "c", "e", "s", "\"", ":", "[", "{",
      "\"", "d", "e", "l", "t", "a", "\"", ":", "{", "\"", "c", "o", "n",
      "t", "e", "n", "t", "\"", ":", "\"", "\"", "}", "}", "]", ",", "\"",
      "u", "s", "a", "g", "e", "\"", ":", "{", "\"", "p", "r", "o", "m",
      "p", "t", "_", "t", "o", "k", "e", "n", "s", "\"", ":", "3", ",",
      "\"", "c", "o", "m", "p", "l", "e", "t", "i", "o", "n", "_", "t",
      "o", "k", "e", "n", "s", "\"", ":", "5", "}", "}">>

\* {"usage":{"prompt_tokens":1,"completion_tokens":2,"total_tokens":3}}
JsonUsageOnly ==
    <<"{", "\"", "u", "s", "a", "g", "e", "\"", ":", "{", "\"", "p", "r",
      "o", "m", "p", "t", "_", "t", "o", "k", "e", "n", "s", "\"", ":",
      "1", ",", "\"", "c", "o", "m", "p", "l", "e", "t", "i", "o", "n",
      "_", "t", "o", "k", "e", "n", "s", "\"", ":", "2", ",", "\"", "t",
      "o", "t", "a", "l", "_", "t", "o", "k", "e", "n", "s", "\"", ":",
      "3", "}", "}">>

\* {"choices":[]}
JsonNoChoices ==
    <<"{", "\"", "c", "h", "o", "i", "c", "e", "s", "\"", ":", "[", "]",
      "}">>

\* {not json
JsonMalformed ==
    <<"{", "n", "o", "t", " ", "j", "s", "o", "n">>

\* NaN
JsonNaN ==
    <<"N", "a", "N">>

\* {"usage":0.0,"choices":[{"delta":{"content":0.0}}]}
JsonFloatZeros ==
    <<"{", "\"", "u", "s", "a", "g", "e", "\"", ":", "0", ".", "0", ",",
      "\"", "c", "h", "o", "i", "c", "e", "s", "\"", ":", "[", "{", "\"",
      "d", "e", "l", "t", "a", "\"", ":", "{", "\"", "c", "o", "n", "t", "e",
      "n", "t", "\"", ":", "0", ".", "0", "}", "}", "]", "}">>

\* The byte 0xFF, which begins no character of UTF-8.
BytesNotUtf8 ==
    <<"ÿ">>

\* The bytes 0xC3 0x89, which are the character É in UTF-8.
BytesEAcute ==
    <<"Ã", "">>

\* É
TextEAcute ==
    <<"É">>

\* Texts of an intent analysis: the object and the answer after it.
\* {"intent":"x","appropriate":true,"reason":""}
ObjTrue ==
    <<"{", "\"", "i", "n", "t", "e", "n", "t", "\"", ":", "\"", "x", "\"",
      ",", "\"", "a", "p", "p", "r", "o", "p", "r", "i", "a", "t", "e",
      "\"", ":", "t", "r", "u", "e", ",", "\"", "r", "e", "a", "s", "o",
      "n", "\"", ":", "\"", "\"", "}">>

\* {"intent":"x","appropriate":false,"reason":"no"}
ObjFalseReason ==
    <<"{", "\"", "i", "n", "t", "e", "n", "t", "\"", ":", "\"", "x", "\"",
      ",", "\"", "a", "p", "p", "r", "o", "p", "r", "i", "a", "t", "e",
      "\"", ":", "f", "a", "l", "s", "e", ",", "\"", "r", "e", "a", "s",
      "o", "n", "\"", ":", "\"", "n", "o", "\"", "}">>

\* \nHi 
TextAnswer ==
    <<"\n", "H", "i", " ">>

\* {"choices":[{"delta":{"content":"{\"intent\":\"x\",\"appropriate\":true,\"reason\":\"\"}"}}]}
JsonContentObjTrue ==
    <<"{", "\"", "c", "h", "o", "i", "c", "e", "s", "\"", ":", "[", "{",
      "\"", "d", "e", "l", "t", "a", "\"", ":", "{", "\"", "c", "o", "n",
      "t", "e", "n", "t", "\"", ":", "\"", "{", "\\", "\"", "i", "n", "t",
      "e", "n", "t", "\\", "\"", ":", "\\", "\"", "x", "\\", "\"", ",",
      "\\", "\"", "a", "p", "p", "r", "o", "p", "r", "i", "a", "t", "e",
      "\\", "\"", ":", "t", "r", "u", "e", ",", "\\", "\"", "r", "e", "a",
      "s", "o", "n", "\\", "\"", ":", "\\", "\"", "\\", "\"", "}", "\"",
      "}", "}", "]", "}">>

\* {"choices":[{"delta":{"content":"{\"intent\":\"x\",\"appropriate\":false,\"reason\":\"no\"}"}}]}
JsonContentObjFalse ==
    <<"{", "\"", "c", "h", "o", "i", "c", "e", "s", "\"", ":", "[", "{",
      "\"", "d", "e", "l", "t", "a", "\"", ":", "{", "\"", "c", "o", "n",
      "t", "e", "n", "t", "\"", ":", "\"", "{", "\\", "\"", "i", "n", "t",
      "e", "n", "t", "\\", "\"", ":", "\\", "\"", "x", "\\", "\"", ",",
      "\\", "\"", "a", "p", "p", "r", "o", "p", "r", "i", "a", "t", "e",
      "\\", "\"", ":", "f", "a", "l", "s", "e", ",", "\\", "\"", "r", "e",
      "a", "s", "o", "n", "\\", "\"", ":", "\\", "\"", "n", "o", "\\", "\"",
      "}", "\"", "}", "}", "]", "}">>

\* {"choices":[{"delta":{"content":"\nHi "}}]}
JsonContentAnswer ==
    <<"{", "\"", "c", "h", "o", "i", "c", "e", "s", "\"", ":", "[", "{",
      "\"", "d", "e", "l", "t", "a", "\"", ":", "{", "\"", "c", "o", "n",
      "t", "e", "n", "t", "\"", ":", "\"", "\\", "n", "H", "i", " ", "\"",
      "}", "}", "]", "}">>

\* {"usage":{}}
JsonUsageEmpty ==
    <<"{", "\"", "u", "s", "a", "g", "e", "\"", ":", "{", "}", "}">>

\* {"choices":[{"delta":{"content":"B"}}],"usage":null}
JsonUsageNull ==
    <<"{", "\"", "c", "h", "o", "i", "c", "e", "s", "\"", ":", "[", "{",
      "\"", "d", "e", "l", "t", "a", "\"", ":", "{", "\"", "c", "o", "n",
      "t", "e", "n", "t", "\"", ":", "\"", "B", "\"", "}", "}", "]", ",",
      "\"", "u", "s", "a", "g", "e", "\"", ":", "n", "u", "l", "l", "}">>

\* The payloads a `data: ` line of the model may carry.
Payloads ==
    {JsonContentA, JsonContentB, JsonEmptyDelta, JsonEmptyContentUsage,
     JsonUsageOnly, JsonNoChoices, JsonMalformed, DoneToken}

\* The lines response.iter_lines() may deliver.
Lines == {BlankLine, CommentLine} \cup {DataPrefix \o p : p \in Payloads}

VARIABLES
    messages,      \* ConversationManager.messages
    max_messages,  \* ConversationManager.max_messages
    ret,           \* <<l>>: the list l a caller got from get_messages(); <<>>: none yet
    aliased,       \* TRUE while ret is the very list object self.messages names
    pre,           \* history: the buffer before the last buffer operation
    lastOp,        \* history: the last buffer operation and its argument
    ideal,         \* history: the buffer as add_message / clear alone make it
    nAdds,         \* history: add_message calls so far
    nMut,          \* history: caller mutations so far
    pc,            \* where the chat_stream generator stands
    resp,          \* what requests.post does for the current call
    idx,           \* lines of resp read so far
    emitted,       \* fragments the current call has yielded
    outcome,       \* <<e>>: the exception the current call ended with
    interrupted,   \* OpenRouterClient.interrupted
    last_usage,    \* OpenRouterClient.last_usage (<<>> for None)
    calls,         \* history: chat_stream calls so far
    prev,          \* history: how the call before the current one ended
    budget,        \* history: calls and response lines still allowed
    intr,          \* history: the first interrupt() of the current call
    config,        \* Config: guardrail, guardrail_check, show_cost
    gcall,         \* history: the last call of a GuardrailChecker method
    tpc,           \* where TerminalChat._process_message stands
    user_message,  \* the message of the current turn
    assistant_response, \* line 1048: the response collected in this turn
    consumed,      \* fragments the loop of line 1067 has taken
    monitor,       \* KeyboardMonitor: interrupted, monitoring
    tracker,       \* CostTracker: total_input_tokens, total_output_tokens
    trace,         \* history: what the current turn has done, in order
    snap,          \* history: the buffer and the ledger when the turn began
    turns          \* history: turns begun so far

streamVars ==
    <<pc, resp, idx, emitted, outcome, interrupted, last_usage, calls, prev,
      budget, intr>>

bufVars == <<messages, max_messages, ret, aliased, pre, lastOp, ideal, nAdds, nMut>>

guardVars == <<config, gcall>>

turnVars ==
    <<tpc, user_message, assistant_response, consumed, monitor, tracker,
      trace, snap, turns>>

(***************************************************************************)
(* Python list slicing s[start:] (start may be negative or zero).          *)
(***************************************************************************)
Max2(a, b) == IF a > b THEN a ELSE b
Min2(a, b) == IF a < b THEN a ELSE b

SliceFrom(s, start) ==
    LET n == Len(s)
        lo == IF start < 0 THEN Max2(n + start, 0) ELSE Min2(start, n)
    IN  SubSeq(s, lo + 1, n)

(***************************************************************************)
(* ConversationManager._apply_sliding_window, on the list after append.    *)
(* When the window is exceeded self.messages is bound to a new list.       *)
(***************************************************************************)
WindowExceeded(msgs, n) == Len(msgs) > n

ApplySlidingWindowNoSystem(msgs, n) ==
    IF ~WindowExceeded(msgs, n) THEN msgs
    ELSE SliceFrom(msgs, -n)

ApplySlidingWindow(msgs, n) ==
    IF ~WindowExceeded(msgs, n) THEN msgs
    ELSE IF msgs[1].role = "system"
         THEN <<msgs[1]>> \o SliceFrom(msgs, -(n - 1))
         ELSE SliceFrom(msgs, -n)

\* ConversationManager.add_message as a function of the list.
AddMessageResult(msgs, n, role, content) ==
    ApplySlidingWindow(Append(msgs, Message(role, content)), n)

(***************************************************************************)
(* Operations of the buffer.                                               *)
(***************************************************************************)
BufInit ==
    /\ messages = <<>>
    /\ max_messages \in 1..MaxCap
    /\ ret = <<>>
    /\ aliased = FALSE
    /\ pre = <<>>
    /\ lastOp = [op |-> "init"]
    /\ ideal = <<>>
    /\ nAdds = 0
    /\ nMut = 0

BufferAdd(role, content) ==
    LET appended == Append(messages, Message(role, content))
    IN  /\ messages' = ApplySlidingWindow(appended, max_messages)
        \* append() changes the list in place; eviction rebinds self.messages
        /\ ret' = IF aliased THEN <<appended>> ELSE ret
        /\ aliased' = (aliased /\ ~WindowExceeded(appended, max_messages))
        /\ pre' = messages
        /\ lastOp' = [op |-> "add", msg |-> Message(role, content)]
        /\ ideal' = AddMessageResult(ideal, max_messages, role, content)
        /\ nAdds' = nAdds + 1
        /\ UNCHANGED <<max_messages, nMut>>

add_message(role, content) ==
    /\ nAdds < MaxAdds
    /\ BufferAdd(role, content)
    /\ UNCHANGED <<streamVars, guardVars, turnVars>>

AddMessage == \E role \in Roles : \E content \in Contents(nAdds + 1) :
                  add_message(role, content)

ClearKeepSystem(msgs) ==
    IF Len(msgs) > 0 /\ msgs[1].role = "system" THEN <<msgs[1]>> ELSE <<>>

ClearResult(msgs) == <<>>

clear ==
    /\ messages' = ClearResult(messages)
    /\ aliased' = FALSE
    /\ pre' = messages
    /\ lastOp' = [op |-> "clear"]
    /\ ideal' = ClearResult(ideal)
    /\ UNCHANGED <<max_messages, ret, nAdds, nMut>>
    /\ UNCHANGED <<streamVars, guardVars, turnVars>>

get_messages ==
    /\ ~aliased
    /\ ret' = <<messages>>
    /\ aliased' = TRUE
    /\ UNCHANGED <<messages, max_messages, pre, lastOp, ideal, nAdds, nMut>>
    /\ UNCHANGED <<streamVars, guardVars, turnVars>>

\* What a caller can do to a list it holds: append, drop the last, replace the first.
Mutations(lst) ==
    {Append(lst, Message("user", "X"))}
    \cup (IF Len(lst) > 0
          THEN {SubSeq(lst, 1, Len(lst) - 1),
                [lst EXCEPT ![1] = Message("user", "X")]}
          ELSE {})

CallerMutates ==
    /\ ret # <<>>
    /\ nMut < MaxMut
    /\ \E lst \in Mutations(ret[1]) :
          /\ ret' = <<lst>>
          /\ messages' = IF aliased THEN lst ELSE messages
    /\ nMut' = nMut + 1
    /\ UNCHANGED <<max_messages, aliased, pre, lastOp, ideal, nAdds>>
    /\ UNCHANGED <<streamVars, guardVars, turnVars>>

BufNext == AddMessage \/ clear

AliasNext == AddMessage \/ clear \/ get_messages \/ CallerMutates

(***************************************************************************)
(* Python values as json.loads builds them, tagged by their type.  A text  *)
(* that the program reads character by character (a fragment, a            *)
(* classifier answer, a response) is the sequence of its characters.       *)
(***************************************************************************)
JNull == [t |-> "null"]
JStr(s) == [t |-> "str", v |-> s]
JInt(n) == [t |-> "int", v |-> n]
JBool(b) == [t |-> "bool", v |-> b]
JList(l) == [t |-> "list", v |-> l]
JDict(d) == [t |-> "dict", v |-> d]
\* A float by its repr: "nan", "0.0", "-0.0".
JFloat(x) == [t |-> "float", v |-> x]
EmptyDict == JDict([k \in {} |-> JNull])

\* Truth value of a Python value (if x:).
Truthy(x) ==
    CASE x.t = "null" -> FALSE
      [] x.t = "str"  -> x.v # <<>>
      [] x.t = "bool" -> x.v
      [] x.t = "int"  -> x.v # 0
      \* bool(x) of a float is x != 0: False for 0.0 and -0.0, True for nan.
      [] x.t = "float" -> x.v \notin {"0.0", "-0.0"}
      [] x.t = "list" -> Len(x.v) > 0
      [] x.t = "dict" -> DOMAIN x.v # {}

\* dict.get(key, default), for d a dict.
Get(d, key, default) == IF key \in DOMAIN d.v THEN d.v[key] ELSE default

\* json.loads on the payloads of the model, one by one: <<value>>, or <<>>
\* for a JSONDecodeError.  Python reads NaN as the float nan.  The texts
\* on which json.loads raises another error (RecursionError on brackets
\* nested too deep, ValueError on an integer of more than 4300 digits) are
\* too long to be payloads here.
JsonLoads(data) ==
    CASE data = JsonContentA ->
           <<JDict([choices |-> JList(<<JDict([delta |->
                JDict([content |-> JStr(<<"A">>)])])>>)])>>
      [] data = JsonContentB ->
           <<JDict([choices |-> JList(<<JDict([delta |->
                JDict([content |-> JStr(<<"B">>)])])>>)])>>
      [] data = JsonEmptyDelta ->
           <<JDict([choices |-> JList(<<JDict([delta |-> EmptyDict])>>)])>>
      [] data = JsonEmptyContentUsage ->
           <<JDict([choices |-> JList(<<JDict([delta |->
                JDict([content |-> JStr(<<>>)])])>>),
                    usage |-> JDict([prompt_tokens |-> JInt(3),
                                     completion_tokens |-> JInt(5)])])>>
      [] data = JsonUsageOnly ->
           <<JDict([usage |-> JDict([prompt_tokens |-> JInt(1),
                                     completion_tokens |-> JInt(2),
                                     total_tokens |-> JInt(3)])])>>
      [] data = JsonNoChoices ->
           <<JDict([choices |-> JList(<<>>)])>>
      [] data = JsonUsageEmpty ->
           <<JDict([usage |-> EmptyDict])>>
      [] data = JsonUsageNull ->
           <<JDict([choices |-> JList(<<JDict([delta |->
                JDict([content |-> JStr(<<"B">>)])])>>),
                    usage |-> JNull])>>
      [] data = JsonContentObjTrue ->
           <<JDict([choices |-> JList(<<JDict([delta |->
                JDict([content |-> JStr(ObjTrue)])])>>)])>>
      [] data = JsonContentObjFalse ->
           <<JDict([choices |-> JList(<<JDict([delta |->
                JDict([content |-> JStr(ObjFalseReason)])])>>)])>>
      [] data = JsonContentAnswer ->
           <<JDict([choices |-> JList(<<JDict([delta |->
                JDict([content |-> JStr(TextAnswer)])])>>)])>>
      [] data = JsonNaN -> <<JFloat("nan")>>
      [] data = JsonFloatZeros ->
           <<JDict([usage |-> JFloat("0.0"),
                    choices |-> JList(<<JDict([delta |->
                       JDict([content |-> JFloat("0.0")])])>>)])>>
      [] data = JsonMalformed -> <<>>
      [] data = TextEAcute -> <<>>
      [] data = DoneToken -> <<>>

(***************************************************************************)
(* Exceptions: the class and the message, the message in its parts.        *)
(***************************************************************************)
Raised(type, msg) == [type |-> type, msg |-> msg]

\* raise Exception(f"API Error ({response.status_code}): {error_msg}")
ApiError(status, error_msg) ==
    Raised("Exception", <<"API Error (", ToString(status), "): ", error_msg>>)

\* raise Exception(f"Network error: {str(e)}")
NetworkError(e) == Raised("Exception", <<"Network error: ">> \o e.msg)

IsApiError(e) == e.type = "Exception" /\ e.msg[1] = "API Error ("

IsNetworkError(e) == e.type = "Exception" /\ e.msg[1] = "Network error: "

\* The handler of chat_stream's try block: what leaves the generator when
\* e is raised inside it.
CatchEverything(e) == NetworkError(e)

Catch(e) == IF e.type = "RequestException" THEN NetworkError(e) ELSE e

(***************************************************************************)
(* The response to requests.post.                                          *)
(***************************************************************************)
\* Status codes tried.
Statuses == {200, 401, 500}

\* Bodies of a non-success response.
Bodies ==
    {"{\"error\":{\"message\":\"bad key\"}}",
     "Bad Gateway",
     "{\"error\":\"unauthorized\"}",
     "{}",
     "{\"error\":{\"code\":400}}"}

\* response.json() on the bodies of the model: <<value>>, or <<>> when it
\* raises a JSONDecodeError.
ResponseJson(body) ==
    CASE body = "{\"error\":{\"message\":\"bad key\"}}" ->
           <<JDict([error |-> JDict([message |-> JStr("bad key")])])>>
      [] body = "{\"error\":\"unauthorized\"}" ->
           <<JDict([error |-> JStr("unauthorized")])>>
      [] body = "{}" -> <<EmptyDict>>
      [] body = "{\"error\":{\"code\":400}}" ->
           <<JDict([error |-> JDict([code |-> JInt(400)])])>>
      [] OTHER -> <<>>

\* Failures of the connection requests reports as a RequestException.
ConnectionFailures == {"Connection refused", "Read timed out"}

SeqsUpTo(S, n) == UNION {[1..k -> S] : k \in 0..n}

\* What a call with response r takes from the budget.
Cost(r) == IF r.kind = "http" THEN 1 + Len(r.lines) ELSE 1

\* The responses a budget of n allows.
Responses(n) ==
    {[kind |-> "refused", e |-> e] : e \in ConnectionFailures}
    \cup {[kind |-> "http", status_code |-> s, text |-> b, lines |-> <<>>,
           broken |-> FALSE] : s \in Statuses \ {200}, b \in Bodies}
    \cup {[kind |-> "http", status_code |-> 200, text |-> "", lines |-> l,
           broken |-> b] : l \in SeqsUpTo(Lines, n - 1), b \in BOOLEAN}

(***************************************************************************)
(* chat_stream, lines 650-658: the exception raised for a non-200 status.  *)
(***************************************************************************)
StatusError(status, text) ==
    LET parsed == ResponseJson(text)
    IN  IF parsed = <<>> THEN ApiError(status, text)
        ELSE LET error_json == parsed[1]
             IN  IF error_json.t # "dict"
                 THEN Raised("AttributeError", <<"get">>)
                 ELSE LET error == Get(error_json, "error", EmptyDict)
                      IN  IF error.t # "dict"
                          THEN Raised("AttributeError", <<"get">>)
                          ELSE ApiError(status,
                                 Get(error, "message", JStr(text)).v)

(***************************************************************************)
(* chat_stream, lines 664-694: the body of the loop for one line, after    *)
(* the interrupted check.  kind is what the body does next: "continue",    *)
(* "break", "yield" (of content) or "raise" (of exc); usage is last_usage  *)
(* as the body leaves it.                                                  *)
(***************************************************************************)
StartsWith(s, prefix) ==
    Len(s) >= Len(prefix) /\ SubSeq(s, 1, Len(prefix)) = prefix

\* A usage record whose total is computed instead of read.
UsageRecordSummed(usage) ==
    [prompt_tokens |-> Get(usage, "prompt_tokens", JInt(0)).v,
     completion_tokens |-> Get(usage, "completion_tokens", JInt(0)).v,
     total_tokens |-> Get(usage, "prompt_tokens", JInt(0)).v
                        + Get(usage, "completion_tokens", JInt(0)).v]

UsageRecord(usage) ==
    [prompt_tokens |-> Get(usage, "prompt_tokens", JInt(0)).v,
     completion_tokens |-> Get(usage, "completion_tokens", JInt(0)).v,
     total_tokens |-> Get(usage, "total_tokens", JInt(0)).v]

Step(kind, usage) == [kind |-> kind, usage |-> usage]

ProcessChunk(chunk, lu) ==
    IF chunk.t # "dict"
    THEN Step("raise", lu) @@ [exc |-> Raised("AttributeError", <<"get">>)]
    ELSE
    LET usage == Get(chunk, "usage", JNull)
    IN  IF Truthy(usage) /\ usage.t # "dict"
        THEN Step("raise", lu) @@ [exc |-> Raised("AttributeError", <<"get">>)]
        ELSE
        LET lu1 == IF Truthy(usage) THEN <<UsageRecord(usage)>> ELSE lu
            choices == Get(chunk, "choices", JList(<<EmptyDict>>))
        IN  IF choices.t = "dict"
            \* No JSON object has the integer key 0: KeyError(0).
            THEN Step("raise", lu1) @@ [exc |-> Raised("KeyError", <<"0">>)]
            ELSE IF choices.t = "str"
            \* The first character of a string is a str, which has no get.
            THEN IF Len(choices.v) = 0
                 THEN Step("raise", lu1) @@
                        [exc |-> Raised("IndexError", <<"string index out of range">>)]
                 ELSE Step("raise", lu1) @@
                        [exc |-> Raised("AttributeError", <<"get">>)]
            ELSE IF choices.t # "list"
            \* None, an int and a bool are not subscriptable.
            THEN Step("raise", lu1) @@ [exc |-> Raised("TypeError", <<"[0]">>)]
            ELSE IF Len(choices.v) = 0
            THEN Step("raise", lu1) @@
                   [exc |-> Raised("IndexError", <<"list index out of range">>)]
            ELSE IF choices.v[1].t # "dict"
            THEN Step("raise", lu1) @@ [exc |-> Raised("AttributeError", <<"get">>)]
            ELSE
            LET delta == Get(choices.v[1], "delta", EmptyDict)
            IN  IF delta.t # "dict"
                THEN Step("raise", lu1) @@
                       [exc |-> Raised("AttributeError", <<"get">>)]
                ELSE
                LET content == Get(delta, "content", JStr(<<>>))
                IN  IF Truthy(content)
                    THEN Step("yield", lu1) @@ [content |-> content.v]
                    ELSE Step("continue", lu1)

Latin1High ==
    <<"", "", "", "", "", "", "", "", "", "", "", "", "", "", "", "",
      "", "", "", "", "", "", "", "", "", "", "", "", "", "", "", "",
      " ", "¡", "¢", "£", "¤", "¥", "¦", "§", "¨", "©", "ª", "«", "¬", "­", "®", "¯",
      "°", "±", "²", "³", "´", "µ", "¶", "·", "¸", "¹", "º", "»", "¼", "½", "¾", "¿",
      "À", "Á", "Â", "Ã", "Ä", "Å", "Æ", "Ç", "È", "É", "Ê", "Ë", "Ì", "Í", "Î", "Ï",
      "Ð", "Ñ", "Ò", "Ó", "Ô", "Õ", "Ö", "×", "Ø", "Ù", "Ú", "Û", "Ü", "Ý", "Þ", "ß",
      "à", "á", "â", "ã", "ä", "å", "æ", "ç", "è", "é", "ê", "ë", "ì", "í", "î", "ï",
      "ð", "ñ", "ò", "ó", "ô", "õ", "ö", "÷", "ø", "ù", "ú", "û", "ü", "ý", "þ", "ÿ">>

HighBytes == {Latin1High[k] : k \in 1..Len(Latin1High)}

\* The place of a byte in Latin1High, that is its value less 127; 0 for a
\* byte below 128.
HighIndex(c) ==
    IF c \in HighBytes
    THEN CHOOSE k \in 1..Len(Latin1High) : Latin1High[k] = c
    ELSE 0

\* bytes.decode('utf-8') of line 667, a byte written as the character of
\* its value: [ok |-> TRUE, text |-> the characters], or [ok |-> FALSE]
\* for a UnicodeDecodeError.  A byte below 128 is its character; 0xC2 or
\* 0xC3 with a continuation byte (0x80-0xBF) after it is one of the
\* characters 128-255; a continuation byte without a lead, 0xC0, 0xC1,
\* 0xF5-0xFF, and a lead without a continuation byte after it are errors.
\* The sequences of the leads 0xC4-0xF4 are the characters above 255, which
\* the texts of the model do not have: of the bytes with such a lead only
\* those with one of these errors are decoded here.
Utf8Decode(b) ==
    LET n == Len(b)
        at(i) == IF i \in 1..n THEN HighIndex(b[i]) ELSE 0
        IsCont(i) == at(i) \in 1..64
        Short(i) == at(i) \in {67, 68}
        Long(i) == at(i) \in 69..117
        Bad(i) == \/ at(i) \in {65, 66} \cup 118..128
                  \/ (Short(i) \/ Long(i)) /\ ~IsCont(i + 1)
        Stray(i) == IsCont(i) /\ ~Short(i - 1)
        kept == {i \in 1..n : ~IsCont(i)}
        Char(i) == IF at(i) = 0 THEN b[i]
                   ELSE Latin1High[at(i + 1) + 64 * (at(i) - 67)]
        Nth(k) == CHOOSE i \in kept : Cardinality({j \in kept : j < i}) = k - 1
    IN  CASE \A i \in 1..n : at(i) = 0 -> [ok |-> TRUE, text |-> b]
          [] \E i \in 1..n : Bad(i) -> [ok |-> FALSE]
          [] (\A i \in 1..n : ~Bad(i) /\ ~Long(i))
               /\ (\E i \in 1..n : Stray(i)) -> [ok |-> FALSE]
          [] (\E i \in 1..n : at(i) # 0)
               /\ (\A i \in 1..n : ~Bad(i) /\ ~Long(i) /\ ~Stray(i)) ->
               [ok |-> TRUE,
                text |-> [k \in 1..Cardinality(kept) |-> Char(Nth(k))]]

\* Line 667 raises.
NotUtf8(lu) ==
    Step("raise", lu) @@
      [exc |-> Raised("UnicodeDecodeError", <<"'utf-8' codec can't decode">>)]

\* Line 693: except json.JSONDecodeError: continue
DecodeError(lu) == Step("continue", lu)

\* Lines 669-694 for the decoded line, without the test of line 672.
ProcessTextWithoutDone(text, lu) ==
    IF ~StartsWith(text, DataPrefix) THEN Step("continue", lu)
    ELSE LET data == SubSeq(text, 7, Len(text))
         IN  LET parsed == JsonLoads(data)
             IN  IF parsed = <<>> THEN DecodeError(lu)
                 ELSE ProcessChunk(parsed[1], lu)

\* Lines 669-694 for the decoded line.
ProcessText(text, lu) ==
    IF ~StartsWith(text, DataPrefix) THEN Step("continue", lu)
    ELSE LET data == SubSeq(text, 7, Len(text))
         IN  IF data = DoneToken THEN Step("break", lu)
             ELSE LET parsed == JsonLoads(data)
                  IN  IF parsed = <<>> THEN DecodeError(lu)
                      ELSE ProcessChunk(parsed[1], lu)

\* The loop body without the test of line 672.
ProcessLineWithoutDone(line, lu) ==
    IF Len(line) = 0 THEN Step("continue", lu)
    ELSE CHOOSE step \in {IF ~decoded.ok THEN NotUtf8(lu)
                          ELSE ProcessTextWithoutDone(decoded.text, lu) :
                              decoded \in {Utf8Decode(line)}} : TRUE

\* Lines 664-694: line is what iter_lines() gave, in bytes.
\* decoded is the value of the one decode of line 667.
ProcessLine(line, lu) ==
    IF Len(line) = 0 THEN Step("continue", lu)
    ELSE CHOOSE step \in {IF ~decoded.ok THEN NotUtf8(lu)
                          ELSE ProcessText(decoded.text, lu) :
                              decoded \in {Utf8Decode(line)}} : TRUE

(***************************************************************************)
(* OpenRouterClient: one chat_stream generator at a time, driven by the   *)
(* consuming flow, and interrupt() callable from any thread.               *)
(*   pc: idle -> start (generator made) -> setup (line 625 done)           *)
(*       -> opening (line 641 done, request sent) -> fetch / process /     *)
(*       yielded -> done | interrupted | error | closed                    *)
(***************************************************************************)
Terminal == {"done", "interrupted", "error", "closed"}

Running == {"setup", "opening", "fetch", "process", "yielded"}

NoIntr == [early |-> FALSE, at |-> -1, pc |-> "none"]

StreamInit ==
    /\ pc = "idle"
    /\ resp = [kind |-> "none"]
    /\ idx = 0
    /\ emitted = <<>>
    /\ outcome = <<>>
    /\ interrupted = FALSE
    /\ last_usage = <<>>
    /\ calls = 0
    /\ prev = "none"
    /\ budget = MaxWork
    /\ intr = NoIntr

\* client.chat_stream(messages): makes the generator; its body has not run.
NewGenerator(r) ==
    /\ pc \in {"idle"} \cup Terminal
    /\ pc' = "start"
    /\ resp' = r
    /\ idx' = 0
    /\ emitted' = <<>>
    /\ outcome' = <<>>
    /\ intr' = NoIntr
    /\ calls' = calls + 1
    /\ prev' = IF pc = "idle" THEN "none" ELSE pc
    /\ UNCHANGED <<interrupted, last_usage>>

chat_stream(r) ==
    /\ budget > 0
    /\ NewGenerator(r)
    /\ budget' = budget - Cost(r)
    /\ UNCHANGED <<bufVars, guardVars, turnVars>>

ChatStream == \E r \in Responses(budget) : chat_stream(r)

\* The first next() without the reset of line 625.
SetupKeepsUsage ==
    /\ pc = "start"
    /\ pc' = "setup"
    /\ UNCHANGED <<resp, idx, emitted, outcome, interrupted, last_usage, calls,
                   prev, budget, intr>>
    /\ UNCHANGED <<bufVars, guardVars, turnVars>>

\* First next(): line 625, then the headers and the payload.
Setup ==
    /\ pc = "start"
    /\ last_usage' = <<>>
    /\ pc' = "setup"
    /\ UNCHANGED <<resp, idx, emitted, outcome, interrupted, calls, prev, budget, intr>>
    /\ UNCHANGED <<bufVars, guardVars, turnVars>>

\* Line 641: what the flag is once the call has reset it.
FlagKept(flag) == flag

FlagAtOpen(flag) == FALSE

\* Line 641 and the sending of the request.
OpenRequest ==
    /\ pc = "setup"
    /\ interrupted' = FlagAtOpen(interrupted)
    /\ pc' = "opening"
    /\ UNCHANGED <<resp, idx, emitted, outcome, last_usage, calls, prev, budget, intr>>
    /\ UNCHANGED <<bufVars, guardVars, turnVars>>

\* requests.post returns or raises; lines 650-658.
ReceiveResponse ==
    /\ pc = "opening"
    /\ IF resp.kind = "refused"
       THEN /\ outcome' = <<Catch(Raised("RequestException", <<resp.e>>))>>
            /\ pc' = "error"
       ELSE IF resp.status_code # 200
       THEN /\ outcome' = <<Catch(StatusError(resp.status_code, resp.text))>>
            /\ pc' = "error"
       ELSE /\ outcome' = outcome
            /\ pc' = "fetch"
    /\ UNCHANGED <<resp, idx, emitted, interrupted, last_usage, calls, prev, budget, intr>>
    /\ UNCHANGED <<bufVars, guardVars, turnVars>>

\* The test of line 661.
InterruptedIgnored(flag) == FALSE

InterruptedSeen(flag) == flag

\* Lines 660-662: the next line of response.iter_lines(), then the check
\* of the flag.  The generator is resumed here after a yield.
NextLine ==
    /\ pc \in {"fetch", "yielded"}
    /\ IF idx = Len(resp.lines)
       THEN /\ idx' = idx
            /\ IF resp.broken
               THEN /\ outcome' = <<Catch(Raised("RequestException",
                                                 <<"Connection broken">>))>>
                    /\ pc' = "error"
               ELSE /\ outcome' = outcome
                    /\ pc' = "done"
       ELSE /\ idx' = idx + 1
            /\ outcome' = outcome
            /\ pc' = IF InterruptedSeen(interrupted) THEN "interrupted"
                     ELSE "process"
    /\ UNCHANGED <<resp, emitted, interrupted, last_usage, calls, prev, budget, intr>>
    /\ UNCHANGED <<bufVars, guardVars, turnVars>>

\* Lines 664-694 for the line just read.
ProcessStep ==
    /\ pc = "process"
    /\ LET r == ProcessLine(resp.lines[idx], last_usage)
       IN  /\ last_usage' = r.usage
           /\ emitted' = IF r.kind = "yield" THEN Append(emitted, r.content)
                         ELSE emitted
           /\ outcome' = IF r.kind = "raise" THEN <<Catch(r.exc)>> ELSE outcome
           /\ pc' = CASE r.kind = "continue" -> "fetch"
                      [] r.kind = "break"    -> "done"
                      [] r.kind = "yield"    -> "yielded"
                      [] r.kind = "raise"    -> "error"
    /\ UNCHANGED <<resp, idx, interrupted, calls, prev, budget, intr>>
    /\ UNCHANGED <<bufVars, guardVars, turnVars>>

\* The consumer leaves its loop and the suspended generator is closed.
Close ==
    /\ pc = "yielded"
    /\ pc' = "closed"
    /\ UNCHANGED <<resp, idx, emitted, outcome, interrupted, last_usage,
                   calls, prev, budget, intr>>
    /\ UNCHANGED <<bufVars, guardVars, turnVars>>

\* interrupt(), lines 699-701; intr remembers the first one of this call.
interrupt ==
    /\ interrupted' = TRUE
    /\ intr' = IF pc = "setup" THEN [intr EXCEPT !.early = TRUE]
               ELSE IF pc \in Running /\ intr.at = -1
               THEN [intr EXCEPT !.at = Len(emitted), !.pc = pc]
               ELSE intr
    /\ UNCHANGED <<pc, resp, idx, emitted, outcome, last_usage, calls, prev, budget>>
    /\ UNCHANGED <<bufVars, guardVars, turnVars>>

\* The consuming flow has control only while the generator is not running.
InterruptByConsumer ==
    /\ pc \in {"idle", "start", "yielded"} \cup Terminal
    /\ ~interrupted
    /\ interrupt

InterruptByThread ==
    /\ ~interrupted
    /\ interrupt

StreamNext ==
    \/ ChatStream
    \/ Setup
    \/ OpenRequest
    \/ ReceiveResponse
    \/ NextLine
    \/ ProcessStep
    \/ Close
    \/ InterruptByConsumer
    \/ InterruptByThread

(***************************************************************************)
(* Text operations of Python, on sequences of characters.                  *)
(***************************************************************************)
\* str.isspace for one character, which is also \s of the regular
\* expressions.  A character of the model is a code point up to 255; the
\* white space among these is tab, line feed, vertical tab, form feed,
\* carriage return, the separators 28-31, the blank, next line (133) and
\* the no-break space (160).
IsSpace(c) ==
    c \in {"\t", "\n", "", "\f", "\r",
           "", "", "", "", " ", "", " "}

\* str.strip()
Strip(s) ==
    LET keep == {i \in 1..Len(s) : ~IsSpace(s[i])}
    IN  IF keep = {} THEN <<>>
        ELSE SubSeq(s, CHOOSE i \in keep : \A k \in keep : i <= k,
                       CHOOSE i \in keep : \A k \in keep : i >= k)

\* The cased letters among the code points up to 255: the 26 of ASCII
\* first, then those of Latin-1 (192-222 without the sign 215).
UpperCase ==
    <<"A", "B", "C", "D", "E", "F", "G", "H", "I", "J", "K", "L", "M",
      "N", "O", "P", "Q", "R", "S", "T", "U", "V", "W", "X", "Y", "Z",
      "À", "Á", "Â", "Ã", "Ä", "Å", "Æ", "Ç", "È", "É", "Ê", "Ë", "Ì",
      "Í", "Î", "Ï", "Ð", "Ñ", "Ò", "Ó", "Ô", "Õ", "Ö", "Ø", "Ù", "Ú",
      "Û", "Ü", "Ý", "Þ">>

LowerCase ==
    <<"a", "b", "c", "d", "e", "f", "g", "h", "i", "j", "k", "l", "m",
      "n", "o", "p", "q", "r", "s", "t", "u", "v", "w", "x", "y", "z",
      "à", "á", "â", "ã", "ä", "å", "æ", "ç", "è", "é", "ê", "ë", "ì",
      "í", "î", "ï", "ð", "ñ", "ò", "ó", "ô", "õ", "ö", "ø", "ù", "ú",
      "û", "ü", "ý", "þ">>

LowerChar(c) ==
    IF \E k \in 1..Len(UpperCase) : UpperCase[k] = c
    THEN LowerCase[CHOOSE k \in 1..Len(UpperCase) : UpperCase[k] = c]
    ELSE c

\* str.lower()
Lower(s) == [i \in 1..Len(s) |-> LowerChar(s[i])]

\* sub in s
Contains(s, sub) ==
    \E i \in 1..(Len(s) - Len(sub) + 1) : SubSeq(s, i, i + Len(sub) - 1) = sub

Digits == {"0", "1", "2", "3", "4", "5", "6", "7", "8", "9"}

\* The characters of s from position i on that a run of pattern class
\* members covers: the end of the longest run of digits starting at i.
DigitsEnd(s, i) ==
    IF \E k \in i..Len(s) : s[k] \notin Digits
    THEN (CHOOSE k \in i..Len(s) :
             s[k] \notin Digits /\ \A m \in i..(k - 1) : s[m] \in Digits) - 1
    ELSE Len(s)

(***************************************************************************)
(* LLAMA_GUARD_CATEGORIES, lines 34-49, by the digits of the code.         *)
(***************************************************************************)
\* S1: Violent Crimes
CategoryViolentCrimes ==
    <<"V", "i", "o", "l", "e", "n", "t", " ", "C", "r", "i", "m", "e", "s">>

\* S2: Non-Violent Crimes
CategoryNonViolentCrimes ==
    <<"N", "o", "n", "-", "V", "i", "o", "l", "e", "n", "t", " ", "C", "r",
      "i", "m", "e", "s">>

\* S3: Sex-Related Crimes
CategorySexRelatedCrimes ==
    <<"S", "e", "x", "-", "R", "e", "l", "a", "t", "e", "d", " ", "C", "r",
      "i", "m", "e", "s">>

\* S4: Child Sexual Exploitation
CategoryChildSexualExploitation ==
    <<"C", "h", "i", "l", "d", " ", "S", "e", "x", "u", "a", "l", " ", "E",
      "x", "p", "l", "o", "i", "t", "a", "t", "i", "o", "n">>

\* S5: Defamation
CategoryDefamation ==
    <<"D", "e", "f", "a", "m", "a", "t", "i", "o", "n">>

\* S6: Specialized Advice
CategorySpecializedAdvice ==
    <<"S", "p", "e", "c", "i", "a", "l", "i", "z", "e", "d", " ", "A", "d",
      "v", "i", "c", "e">>

\* S7: Privacy Violations
CategoryPrivacyViolations ==
    <<"P", "r", "i", "v", "a", "c", "y", " ", "V", "i", "o", "l", "a", "t",
      "i", "o", "n", "s">>

\* S8: Intellectual Property Violations
CategoryIntellectualPropertyViolations ==
    <<"I", "n", "t", "e", "l", "l", "e", "c", "t", "u", "a", "l", " ", "P",
      "r", "o", "p", "e", "r", "t", "y", " ", "V", "i", "o", "l", "a", "t",
      "i", "o", "n", "s">>

\* S9: Indiscriminate Weapons
CategoryIndiscriminateWeapons ==
    <<"I", "n", "d", "i", "s", "c", "r", "i", "m", "i", "n", "a", "t", "e",
      " ", "W", "e", "a", "p", "o", "n", "s">>

\* S10: Hate Speech
CategoryHateSpeech ==
    <<"H", "a", "t", "e", " ", "S", "p", "e", "e", "c", "h">>

\* S11: Suicide & Self-Harm
CategorySuicideSelfHarm ==
    <<"S", "u", "i", "c", "i", "d", "e", " ", "&", " ", "S", "e", "l", "f",
      "-", "H", "a", "r", "m">>

\* S12: Sexual Content
CategorySexualContent ==
    <<"S", "e", "x", "u", "a", "l", " ", "C", "o", "n", "t", "e", "n", "t">>

\* S13: Elections
CategoryElections ==
    <<"E", "l", "e", "c", "t", "i", "o", "n", "s">>

\* S14: Code Interpreter Abuse
CategoryCodeInterpreterAbuse ==
    <<"C", "o", "d", "e", " ", "I", "n", "t", "e", "r", "p", "r", "e", "t",
      "e", "r", " ", "A", "b", "u", "s", "e">>

\* Unknown Category
UnknownCategory ==
    <<"U", "n", "k", "n", "o", "w", "n", " ", "C", "a", "t", "e", "g", "o",
      "r", "y">>

\* LLAMA_GUARD_CATEGORIES.get("S" + digits, "Unknown Category")
CategoryName(digits) ==
    CASE digits = <<"1">> -> CategoryViolentCrimes
      [] digits = <<"2">> -> CategoryNonViolentCrimes
      [] digits = <<"3">> -> CategorySexRelatedCrimes
      [] digits = <<"4">> -> CategoryChildSexualExploitation
      [] digits = <<"5">> -> CategoryDefamation
      [] digits = <<"6">> -> CategorySpecializedAdvice
      [] digits = <<"7">> -> CategoryPrivacyViolations
      [] digits = <<"8">> -> CategoryIntellectualPropertyViolations
      [] digits = <<"9">> -> CategoryIndiscriminateWeapons
      [] digits = <<"1", "0">> -> CategoryHateSpeech
      [] digits = <<"1", "1">> -> CategorySuicideSelfHarm
      [] digits = <<"1", "2">> -> CategorySexualContent
      [] digits = <<"1", "3">> -> CategoryElections
      [] digits = <<"1", "4">> -> CategoryCodeInterpreterAbuse
      [] OTHER -> UnknownCategory

\* Content blocked by safety guardrail
DefaultBlockReason ==
    <<"C", "o", "n", "t", "e", "n", "t", " ", "b", "l", "o", "c", "k", "e",
      "d", " ", "b", "y", " ", "s", "a", "f", "e", "t", "y", " ", "g", "u",
      "a", "r", "d", "r", "a", "i", "l">>

\* unsafe
UnsafeToken ==
    <<"u", "n", "s", "a", "f", "e">>

\* safe
SafeToken ==
    <<"s", "a", "f", "e">>

(***************************************************************************)
(* GuardrailChecker._format_guardrail_reason, lines 739-772.               *)
(***************************************************************************)
\* The last match instead of the first.
SCodeMatchLast(reason) ==
    LET starts == {i \in 1..(Len(reason) - 1) :
                     reason[i] = "S" /\ reason[i + 1] \in Digits}
    IN  IF starts = {} THEN <<>>
        ELSE LET i == CHOOSE x \in starts : \A y \in starts : x >= y
             IN  <<i, DigitsEnd(reason, i + 1)>>

\* re.search(r'S(\d+)', reason): <<i, j>>, the match reason[i..j], or <<>>.
SCodeMatch(reason) ==
    LET starts == {i \in 1..(Len(reason) - 1) :
                     reason[i] = "S" /\ reason[i + 1] \in Digits}
    IN  IF starts = {} THEN <<>>
        ELSE LET i == CHOOSE x \in starts : \A y \in starts : x <= y
             IN  <<i, DigitsEnd(reason, i + 1)>>

\* re.sub(r'^\s*unsafe\s*\n?\s*', '', reason, flags=re.IGNORECASE)
RemoveUnsafePrefix(reason) ==
    LET n == Len(reason)
        lead == IF \E k \in 1..n : ~IsSpace(reason[k])
                THEN (CHOOSE k \in 1..n : ~IsSpace(reason[k])
                         /\ \A m \in 1..(k - 1) : IsSpace(reason[m])) - 1
                ELSE n
        after == lead + Len(UnsafeToken)
    IN  IF after <= n /\ Lower(SubSeq(reason, lead + 1, after)) = UnsafeToken
        THEN LET rest == SubSeq(reason, after + 1, n)
                 skip == IF \E k \in 1..Len(rest) : ~IsSpace(rest[k])
                         THEN (CHOOSE k \in 1..Len(rest) : ~IsSpace(rest[k])
                                  /\ \A m \in 1..(k - 1) : IsSpace(rest[m])) - 1
                         ELSE Len(rest)
             IN  SubSeq(rest, skip + 1, Len(rest))
        ELSE reason

format_guardrail_reason(reason) ==
    IF reason = <<>> THEN DefaultBlockReason
    ELSE LET m == SCodeMatch(reason)
             cleaned == RemoveUnsafePrefix(reason)
         IN  IF m # <<>>
             THEN LET s_code == SubSeq(reason, m[1], m[2])
                      category_name == CategoryName(Tail(s_code))
                  IN  IF Contains(Lower(reason), Lower(category_name))
                      THEN Strip(cleaned)
                      ELSE category_name \o <<" ", "(">> \o s_code \o <<")">>
             ELSE IF Strip(cleaned) # <<>> THEN Strip(cleaned)
                  ELSE DefaultBlockReason

(***************************************************************************)
(* The classifier call of GuardrailChecker._check_external: what           *)
(* requests.post does, and the texts a classifier may answer.              *)
(***************************************************************************)
\* safe
ClsSafe ==
    <<"s", "a", "f", "e">>

\* SAFE
ClsSafeUpper ==
    <<"S", "A", "F", "E">>

\*   Safe\n
ClsSafePadded ==
    <<" ", " ", "S", "a", "f", "e", "\n">>

\* safer
ClsSafer ==
    <<"s", "a", "f", "e", "r">>

\* unsafe
ClsUnsafe ==
    <<"u", "n", "s", "a", "f", "e">>

\* unsafe\nS9
ClsUnsafeS9 ==
    <<"u", "n", "s", "a", "f", "e", "\n", "S", "9">>

\* Unsafe\nS5: Defamation
ClsUnsafeNamed ==
    <<"U", "n", "s", "a", "f", "e", "\n", "S", "5", ":", " ", "D", "e", "f",
      "a", "m", "a", "t", "i", "o", "n">>

\* the empty text
ClsEmpty == <<>>

\*   
ClsBlank ==
    <<" ", " ">>

\* not safe
ClsNotSafe ==
    <<"n", "o", "t", " ", "s", "a", "f", "e">>

\* unsafe\nS99
ClsUnsafeS99 ==
    <<"u", "n", "s", "a", "f", "e", "\n", "S", "9", "9">>

ClassifierTexts ==
    {ClsSafe, ClsSafeUpper, ClsSafePadded, ClsSafer, ClsUnsafe, ClsUnsafeS9,
     ClsUnsafeNamed, ClsEmpty, ClsBlank, ClsNotSafe, ClsUnsafeS99}

\* The body {"choices":[{"message":{"content": content}}]} as response.json()
\* returns it.
ClassifierBody(content) ==
    JDict([choices |-> JList(<<JDict([message |->
                JDict([content |-> content])])>>)])

\* What requests.post does for a classifier call: it raises a
\* RequestException, or returns a response with a status code whose json()
\* gives <<value>> or, for <<>>, raises a JSONDecodeError.
ClassifierReplies ==
    {[kind |-> "raises", e |-> e] : e \in ConnectionFailures}
    \cup {[kind |-> "http", status_code |-> s, json |-> <<>>] : s \in {200, 500}}
    \cup {[kind |-> "http", status_code |-> s,
           json |-> <<ClassifierBody(JStr(ClsUnsafeS9))>>] : s \in {429}}
    \cup {[kind |-> "http", status_code |-> 200, json |-> <<b>>] :
             b \in {ClassifierBody(JStr(t)) : t \in ClassifierTexts}
                   \cup {ClassifierBody(JNull), EmptyDict, JList(<<>>),
                         JDict([choices |-> JList(<<>>)])}}

\* API call failed
ErrApiCallFailed ==
    <<"A", "P", "I", " ", "c", "a", "l", "l", " ", "f", "a", "i", "l", "e",
      "d">>

\* Expecting value: line 1 column 1 (char 0)
ErrExpectingValue ==
    <<"E", "x", "p", "e", "c", "t", "i", "n", "g", " ", "v", "a", "l", "u",
      "e", ":", " ", "l", "i", "n", "e", " ", "1", " ", "c", "o", "l", "u",
      "m", "n", " ", "1", " ", "(", "c", "h", "a", "r", " ", "0", ")">>

\* list index out of range
ErrListIndex ==
    <<"l", "i", "s", "t", " ", "i", "n", "d", "e", "x", " ", "o", "u", "t",
      " ", "o", "f", " ", "r", "a", "n", "g", "e">>

\* string index out of range
ErrStringIndex ==
    <<"s", "t", "r", "i", "n", "g", " ", "i", "n", "d", "e", "x", " ", "o",
      "u", "t", " ", "o", "f", " ", "r", "a", "n", "g", "e">>

\* ' object has no attribute '
ErrNoAttribute ==
    <<"'", " ", "o", "b", "j", "e", "c", "t", " ", "h", "a", "s", " ", "n",
      "o", " ", "a", "t", "t", "r", "i", "b", "u", "t", "e", " ", "'">>

\* ' object is not subscriptable
ErrNotSubscriptable ==
    <<"'", " ", "o", "b", "j", "e", "c", "t", " ", "i", "s", " ", "n", "o",
      "t", " ", "s", "u", "b", "s", "c", "r", "i", "p", "t", "a", "b", "l",
      "e">>

\* Guardrail check failed: 
FailurePrefix ==
    <<"G", "u", "a", "r", "d", "r", "a", "i", "l", " ", "c", "h", "e", "c",
      "k", " ", "f", "a", "i", "l", "e", "d", ":", " ">>

\* Connection refused
ErrConnectionRefused ==
    <<"C", "o", "n", "n", "e", "c", "t", "i", "o", "n", " ", "r", "e", "f",
      "u", "s", "e", "d">>

\* Read timed out
ErrReadTimedOut ==
    <<"R", "e", "a", "d", " ", "t", "i", "m", "e", "d", " ", "o", "u", "t">>

\* dict
TypeDict ==
    <<"d", "i", "c", "t">>

\* list
TypeList ==
    <<"l", "i", "s", "t">>

\* str
TypeStr ==
    <<"s", "t", "r">>

\* int
TypeInt ==
    <<"i", "n", "t">>

\* bool
TypeBool ==
    <<"b", "o", "o", "l">>

\* NoneType
TypeNone ==
    <<"N", "o", "n", "e", "T", "y", "p", "e">>

\* type(x).__name__
TypeName(x) ==
    CASE x.t = "dict" -> TypeDict
      [] x.t = "list" -> TypeList
      [] x.t = "str"  -> TypeStr
      [] x.t = "int"  -> TypeInt
      [] x.t = "bool" -> TypeBool
      [] x.t = "null" -> TypeNone

\* str(e) of a failure of the connection.
FailureText(e) ==
    CASE e = "Connection refused" -> ErrConnectionRefused
      [] e = "Read timed out"     -> ErrReadTimedOut

\* str(e) of the AttributeError of x.attr
NoAttribute(x, attr) == <<"'">> \o TypeName(x) \o ErrNoAttribute \o attr \o <<"'">>

Ok(v) == [ok |-> TRUE, v |-> v]

Err(e) == [ok |-> FALSE, e |-> e]

\* x.get(key, default): only a dict has get.
PyGet(x, key, default) ==
    IF x.t = "dict" THEN Ok(Get(x, key, default))
    ELSE Err(NoAttribute(x, <<"g", "e", "t">>))

\* x[0].  The keys of a JSON object are strings, so the integer 0 is a key
\* of no dict: the subscript raises KeyError(0), and str(e) is '0'.
PyFirst(x) ==
    CASE x.t = "list" -> IF Len(x.v) = 0 THEN Err(ErrListIndex) ELSE Ok(x.v[1])
      [] x.t = "str"  -> IF Len(x.v) = 0 THEN Err(ErrStringIndex)
                         ELSE Ok(JStr(<<x.v[1]>>))
      [] x.t = "dict" -> Err(<<"0">>)
      [] OTHER        -> Err(<<"'">> \o TypeName(x) \o ErrNotSubscriptable)

\* Line 811: result.get('choices', [{}])[0].get('message', {}).get('content', '')
ClassifierContent(result) ==
    LET choices == PyGet(result, "choices", JList(<<EmptyDict>>))
    IN  IF ~choices.ok THEN choices
        ELSE LET first == PyFirst(choices.v)
             IN  IF ~first.ok THEN first
                 ELSE LET message == PyGet(first.v, "message", EmptyDict)
                      IN  IF ~message.ok THEN message
                          ELSE PyGet(message.v, "content", JStr(<<>>))

(***************************************************************************)
(* GuardrailChecker, lines 713-840.  A check returns its verdict together  *)
(* with what it did on the way: the classifier requests it sent and the    *)
(* number of times it asked the user.                                      *)
(***************************************************************************)
Checked(allowed, reason, posts, asks) ==
    [allowed |-> allowed, reason |-> reason, posts |-> posts, asks |-> asks]

\* return (True, "") without any call
Allowed == Checked(TRUE, <<>>, <<>>, 0)

\* _handle_failure, lines 830-840, answer being what Confirm.ask returns.
handle_failure_open(check_type, error, answer) ==
    [allowed |-> TRUE, reason |-> <<>>, asks |-> 0]

handle_failure(check_type, error, answer) ==
    IF answer THEN [allowed |-> TRUE, reason |-> <<>>, asks |-> 1]
    ELSE [allowed |-> FALSE, reason |-> FailurePrefix \o error, asks |-> 1]

\* Line 815: content.strip().lower().startswith("safe")
IsSafeExact(content) == content = SafeToken

IsSafe(content) == StartsWith(Lower(Strip(content)), SafeToken)

\* Lines 787-790: the Llama Guard prompt, by the role it names and the text.
ClassifierRequest(text, check_type) ==
    [role |-> IF check_type = "input" THEN "user" ELSE "assistant",
     text |-> text]

\* _check_external, lines 774-828.
check_external(text, check_type, reply, answer) ==
    LET posts == <<ClassifierRequest(text, check_type)>>
        failed(error) ==
            LET f == handle_failure(check_type, error, answer)
            IN  Checked(f.allowed, f.reason, posts, f.asks)
    IN  IF reply.kind = "raises" THEN failed(FailureText(reply.e))
        ELSE IF reply.status_code # 200 THEN failed(ErrApiCallFailed)
        ELSE IF reply.json = <<>> THEN failed(ErrExpectingValue)
        ELSE LET content == ClassifierContent(reply.json[1])
             IN  IF ~content.ok THEN failed(content.e)
                 ELSE IF content.v.t # "str"
                 THEN failed(NoAttribute(content.v, <<"s", "t", "r", "i", "p">>))
                 ELSE IF IsSafe(content.v.v) THEN Checked(TRUE, <<>>, posts, 0)
                 ELSE LET raw_reason == IF content.v.v # <<>>
                                        THEN Strip(content.v.v)
                                        ELSE DefaultBlockReason
                      IN  Checked(FALSE, format_guardrail_reason(raw_reason),
                                  posts, 0)

\* Lines 715-720 and 728-733: only the external strategy goes to a classifier.
UsesClassifierUnlessNone(guardrail) == guardrail # "none"

UsesClassifier(guardrail) == guardrail = "external"

\* Lines 721 and 734: the configured direction covers this check.
DirectionAny(guardrail_check, check_type) == TRUE

DirectionSelected(guardrail_check, check_type) ==
    guardrail_check \in {check_type, "both"}

\* check_input, lines 713-724.
check_input(cfg, text, reply, answer) ==
    IF UsesClassifier(cfg.guardrail)
       /\ DirectionSelected(cfg.guardrail_check, "input")
    THEN check_external(text, "input", reply, answer)
    ELSE Allowed

\* check_output, lines 726-737.
check_output(cfg, text, reply, answer) ==
    IF UsesClassifier(cfg.guardrail)
       /\ DirectionSelected(cfg.guardrail_check, "output")
    THEN check_external(text, "output", reply, answer)
    ELSE Allowed

(***************************************************************************)
(* GuardrailChecker.parse_intent_response, lines 842-879.                  *)
(***************************************************************************)
\* "intent"
KeyIntent ==
    <<"\"", "i", "n", "t", "e", "n", "t", "\"">>

\* "appropriate"
KeyAppropriate ==
    <<"\"", "a", "p", "p", "r", "o", "p", "r", "i", "a", "t", "e", "\"">>

\* Intent analysis not found
IntentNotFound ==
    <<"I", "n", "t", "e", "n", "t", " ", "a", "n", "a", "l", "y", "s", "i",
      "s", " ", "n", "o", "t", " ", "f", "o", "u", "n", "d">>

\* Intent parsing failed
IntentParsingFailed ==
    <<"I", "n", "t", "e", "n", "t", " ", "p", "a", "r", "s", "i", "n", "g",
      " ", "f", "a", "i", "l", "e", "d">>

\* Unknown intent
UnknownIntent ==
    <<"U", "n", "k", "n", "o", "w", "n", " ", "i", "n", "t", "e", "n", "t">>

\* . Reason: 
ReasonInfix ==
    <<".", " ", "R", "e", "a", "s", "o", "n", ":", " ">>

\* True
TextTrue ==
    <<"T", "r", "u", "e">>

\* False
TextFalse ==
    <<"F", "a", "l", "s", "e">>

\* None
TextNone ==
    <<"N", "o", "n", "e">>

\* {"intent":"x","appropriate":false}
ObjFalse ==
    <<"{", "\"", "i", "n", "t", "e", "n", "t", "\"", ":", "\"", "x", "\"",
      ",", "\"", "a", "p", "p", "r", "o", "p", "r", "i", "a", "t", "e",
      "\"", ":", "f", "a", "l", "s", "e", "}">>

\* {"appropriate":false,"intent":"x"}
ObjReversed ==
    <<"{", "\"", "a", "p", "p", "r", "o", "p", "r", "i", "a", "t", "e",
      "\"", ":", "f", "a", "l", "s", "e", ",", "\"", "i", "n", "t", "e",
      "n", "t", "\"", ":", "\"", "x", "\"", "}">>

\* {"intent":"x","appropriate":"false"}
ObjStrFalse ==
    <<"{", "\"", "i", "n", "t", "e", "n", "t", "\"", ":", "\"", "x", "\"",
      ",", "\"", "a", "p", "p", "r", "o", "p", "r", "i", "a", "t", "e",
      "\"", ":", "\"", "f", "a", "l", "s", "e", "\"", "}">>

\* {"intent":"x","appropriate":"true"}
ObjStrTrue ==
    <<"{", "\"", "i", "n", "t", "e", "n", "t", "\"", ":", "\"", "x", "\"",
      ",", "\"", "a", "p", "p", "r", "o", "p", "r", "i", "a", "t", "e",
      "\"", ":", "\"", "t", "r", "u", "e", "\"", "}">>

\* {"intent":"x","appropriate":1}
ObjOne ==
    <<"{", "\"", "i", "n", "t", "e", "n", "t", "\"", ":", "\"", "x", "\"",
      ",", "\"", "a", "p", "p", "r", "o", "p", "r", "i", "a", "t", "e",
      "\"", ":", "1", "}">>

\* {"intent":"x","appropriate":0}
ObjZero ==
    <<"{", "\"", "i", "n", "t", "e", "n", "t", "\"", ":", "\"", "x", "\"",
      ",", "\"", "a", "p", "p", "r", "o", "p", "r", "i", "a", "t", "e",
      "\"", ":", "0", "}">>

\* {"x":"intent","appropriate":false}
ObjNoIntentKey ==
    <<"{", "\"", "x", "\"", ":", "\"", "i", "n", "t", "e", "n", "t", "\"",
      ",", "\"", "a", "p", "p", "r", "o", "p", "r", "i", "a", "t", "e",
      "\"", ":", "f", "a", "l", "s", "e", "}">>

\* {"intent":"x","reason":"appropriate"}
ObjNoAppropriateKey ==
    <<"{", "\"", "i", "n", "t", "e", "n", "t", "\"", ":", "\"", "x", "\"",
      ",", "\"", "r", "e", "a", "s", "o", "n", "\"", ":", "\"", "a", "p",
      "p", "r", "o", "p", "r", "i", "a", "t", "e", "\"", "}">>

\* {"intent":"x","appropriate":false,"reason":"a } b"}
ObjBraceInReason ==
    <<"{", "\"", "i", "n", "t", "e", "n", "t", "\"", ":", "\"", "x", "\"",
      ",", "\"", "a", "p", "p", "r", "o", "p", "r", "i", "a", "t", "e",
      "\"", ":", "f", "a", "l", "s", "e", ",", "\"", "r", "e", "a", "s",
      "o", "n", "\"", ":", "\"", "a", " ", "}", " ", "b", "\"", "}">>

\* {"intent":"x","appropriate":tru}
ObjMalformed ==
    <<"{", "\"", "i", "n", "t", "e", "n", "t", "\"", ":", "\"", "x", "\"",
      ",", "\"", "a", "p", "p", "r", "o", "p", "r", "i", "a", "t", "e",
      "\"", ":", "t", "r", "u", "}">>

\* the span of ObjBraceInReason up to its first }
SpanBraceInReason ==
    <<"{", "\"", "i", "n", "t", "e", "n", "t", "\"", ":", "\"", "x", "\"",
      ",", "\"", "a", "p", "p", "r", "o", "p", "r", "i", "a", "t", "e",
      "\"", ":", "f", "a", "l", "s", "e", ",", "\"", "r", "e", "a", "s",
      "o", "n", "\"", ":", "\"", "a", " ", "}">>

\* pre 
TextPre ==
    <<"p", "r", "e", " ">>

\* Hi
TextHi ==
    <<"H", "i">>

\* The JSON objects of the model and what json.loads makes of each.
IntentObjects ==
    {ObjTrue, ObjFalseReason, ObjFalse, ObjReversed, ObjStrFalse, ObjStrTrue,
     ObjOne, ObjZero, ObjNoIntentKey, ObjNoAppropriateKey, ObjBraceInReason}

\* The spans of the model's texts that are not valid JSON.
MalformedSpans == {ObjMalformed, SpanBraceInReason}

ParsedObject(obj) ==
    CASE obj = ObjTrue ->
           JDict([intent |-> JStr(<<"x">>), appropriate |-> JBool(TRUE),
                  reason |-> JStr(<<>>)])
      [] obj = ObjFalseReason ->
           JDict([intent |-> JStr(<<"x">>), appropriate |-> JBool(FALSE),
                  reason |-> JStr(<<"n", "o">>)])
      [] obj = ObjFalse ->
           JDict([intent |-> JStr(<<"x">>), appropriate |-> JBool(FALSE)])
      [] obj = ObjReversed ->
           JDict([appropriate |-> JBool(FALSE), intent |-> JStr(<<"x">>)])
      [] obj = ObjStrFalse ->
           JDict([intent |-> JStr(<<"x">>),
                  appropriate |-> JStr(<<"f", "a", "l", "s", "e">>)])
      [] obj = ObjStrTrue ->
           JDict([intent |-> JStr(<<"x">>),
                  appropriate |-> JStr(<<"t", "r", "u", "e">>)])
      [] obj = ObjOne ->
           JDict([intent |-> JStr(<<"x">>), appropriate |-> JInt(1)])
      [] obj = ObjZero ->
           JDict([intent |-> JStr(<<"x">>), appropriate |-> JInt(0)])
      [] obj = ObjNoIntentKey ->
           JDict([x |-> JStr(<<"i", "n", "t", "e", "n", "t">>),
                  appropriate |-> JBool(FALSE)])
      [] obj = ObjNoAppropriateKey ->
           JDict([intent |-> JStr(<<"x">>),
                  reason |-> JStr(<<"a", "p", "p", "r", "o", "p", "r", "i",
                                    "a", "t", "e">>)])
      [] obj = ObjBraceInReason ->
           JDict([intent |-> JStr(<<"x">>), appropriate |-> JBool(FALSE),
                  reason |-> JStr(<<"a", " ", "}", " ", "b">>)])

\* json.loads(json_str) on the spans the pattern can match in the model's
\* texts: <<value>>, or <<>> for a JSONDecodeError.
IntentJsonLoads(json_str) ==
    CASE json_str \in IntentObjects  -> <<ParsedObject(json_str)>>
      [] json_str \in MalformedSpans -> <<>>

\* The responses parse_intent_response is tried on.
IntentResponses ==
    {before \o obj \o after : before \in {<<>>, TextPre},
                               obj \in IntentObjects \cup {ObjMalformed},
                               after \in {<<>>, TextAnswer}}
    \cup {<<>>, TextHi, SubSeq(ObjTrue, 1, 12)}

\* Positions of sub in s: the i with s[i..] starting with sub.
Occurrences(s, sub) ==
    {i \in 1..(Len(s) - Len(sub) + 1) : SubSeq(s, i, i + Len(sub) - 1) = sub}

\* re.search(r'\{[^}]*"intent"[^}]*"appropriate"[^}]*\}', response, re.DOTALL):
\* <<i, j>>, the match response[i..j], or <<>>.  A match starts at a { and
\* ends at the first } after it, with "intent" and then "appropriate"
\* in between; the leftmost such { is the one found.
IntentMatchAt(response, i) ==
    /\ response[i] = "{"
    /\ \E j \in (i + 1)..Len(response) :
          /\ response[j] = "}"
          /\ \A k \in (i + 1)..(j - 1) : response[k] # "}"
          /\ \E p \in Occurrences(response, KeyIntent) :
                \E q \in Occurrences(response, KeyAppropriate) :
                   /\ i < p
                   /\ p + Len(KeyIntent) <= q
                   /\ q + Len(KeyAppropriate) <= j

IntentMatch(response) ==
    LET starts == {i \in 1..Len(response) : IntentMatchAt(response, i)}
    IN  IF starts = {} THEN <<>>
        ELSE LET i == CHOOSE x \in starts : \A y \in starts : x <= y
             IN  <<i, CHOOSE j \in (i + 1)..Len(response) :
                         /\ response[j] = "}"
                         /\ \A k \in (i + 1)..(j - 1) : response[k] # "}">>

\* str(x) as an f-string formats x.
PyStr(x) ==
    CASE x.t = "str"  -> x.v
      [] x.t = "bool" -> IF x.v THEN TextTrue ELSE TextFalse
      [] x.t = "null" -> TextNone
      [] x.t = "int" /\ x.v \in 0..9 -> <<ToString(x.v)>>

Parsed(allowed, intent_summary, actual_response) ==
    [allowed |-> allowed, intent_summary |-> intent_summary,
     actual_response |-> actual_response]

\* Lines 877-879: the JSONDecodeError handler.
IntentDecodeErrorBlocks(response) == Parsed(FALSE, JStr(IntentParsingFailed), <<>>)

IntentDecodeError(response) == Parsed(TRUE, JStr(IntentParsingFailed), response)

parse_intent_response(response) ==
    LET match == IntentMatch(response)
    IN  IF match = <<>> THEN Parsed(TRUE, JStr(IntentNotFound), response)
        ELSE
        LET json_str == SubSeq(response, match[1], match[2])
            loaded == IntentJsonLoads(json_str)
        IN  IF loaded = <<>> THEN IntentDecodeError(response)
            ELSE
            LET intent_data == loaded[1]
                intent_summary == Get(intent_data, "intent", JStr(UnknownIntent))
                appropriate == Get(intent_data, "appropriate", JBool(TRUE))
                reason == Get(intent_data, "reason", JStr(<<>>))
                actual_response ==
                    Strip(SubSeq(response, match[2] + 1, Len(response)))
            IN  IF Truthy(appropriate)
                THEN Parsed(TRUE, intent_summary, actual_response)
                ELSE IF Truthy(reason)
                THEN Parsed(FALSE,
                            JStr(PyStr(intent_summary) \o ReasonInfix
                                 \o PyStr(reason)), <<>>)
                ELSE Parsed(FALSE, intent_summary, <<>>)

(***************************************************************************)
(* The configuration, Config lines 377-383 and 455-464, and the calls of   *)
(* the GuardrailChecker methods.                                           *)
(***************************************************************************)
Guardrails == {"system", "external", "intent", "none"}

Directions == {"input", "output", "both"}

\* Config.__init__: the defaults.
ConfigDefault ==
    [guardrail |-> "system", guardrail_check |-> "both", show_cost |-> FALSE]

\* Config._load_config: what a configuration file can give.
Configs ==
    [guardrail : Guardrails, guardrail_check : Directions, show_cost : BOOLEAN]

\* The texts given to check_input and check_output.
CheckedTexts == {<<>>, TextHi, ClsUnsafeS9}

NoCall == [op |-> "none"]

GuardIdle ==
    /\ config = ConfigDefault
    /\ gcall = NoCall

GuardInit ==
    /\ config \in Configs
    /\ gcall = NoCall

CheckInput ==
    \E text \in CheckedTexts : \E reply \in ClassifierReplies :
      \E answer \in BOOLEAN :
        /\ gcall' = [op |-> "check_input", text |-> text, reply |-> reply,
                     answer |-> answer,
                     result |-> check_input(config, text, reply, answer)]
        /\ UNCHANGED <<config, bufVars, streamVars, turnVars>>

CheckOutput ==
    \E text \in CheckedTexts : \E reply \in ClassifierReplies :
      \E answer \in BOOLEAN :
        /\ gcall' = [op |-> "check_output", text |-> text, reply |-> reply,
                     answer |-> answer,
                     result |-> check_output(config, text, reply, answer)]
        /\ UNCHANGED <<config, bufVars, streamVars, turnVars>>

ParseIntentResponse ==
    \E response \in IntentResponses :
        /\ gcall' = [op |-> "parse_intent_response", response |-> response,
                     result |-> parse_intent_response(response)]
        /\ UNCHANGED <<config, bufVars, streamVars, turnVars>>

GuardNext == CheckInput \/ CheckOutput \/ ParseIntentResponse

(***************************************************************************)
(* TerminalChat before its first turn, lines 885-895.                      *)
(***************************************************************************)
\* KeyboardMonitor.__init__, lines 55-58: thread is None (<<>>).
NoMonitor ==
    [interrupted |-> FALSE, monitoring |-> FALSE, thread |-> <<>>,
     running |-> FALSE]

NoUsage == [total_input_tokens |-> 0, total_output_tokens |-> 0]

TurnIdle ==
    /\ tpc = "idle"
    /\ user_message = <<>>
    /\ assistant_response = <<>>
    /\ consumed = 0
    /\ monitor = NoMonitor
    /\ tracker = NoUsage
    /\ trace = <<>>
    /\ snap = [messages |-> <<>>, tracker |-> NoUsage, calls |-> 0]
    /\ turns = 0

\* What line 1039 (if not allowed) makes of the verdict of check_input.
InputPassesAlways(allowed) == TRUE

InputPasses(allowed) == allowed

\* What lines 1104 and 1116 (if not allowed) make of the verdict on the
\* response.
OutputPassesAlways(allowed) == TRUE

OutputPasses(allowed) == allowed

\* config.system_prompt, as a configuration file sets it: Be safe.
SystemPromptText ==
    <<"B", "e", " ", "s", "a", "f", "e", ".">>

\* config.intent_system_prompt, by the words of its second rule
IntentPromptText ==
    <<"O", "u", "t", "p", "u", "t", " ", "y", "o", "u", "r", " ", "a", "n",
      "a", "l", "y", "s", "i", "s", " ", "F", "I", "R", "S", "T", " ", "a",
      "s", " ", "J", "S", "O", "N">>

\* TerminalChat.__init__, lines 897-901: the buffer it leaves.
SeededMessages(cfg) ==
    CASE cfg.guardrail = "system" -> <<Message("system", SystemPromptText)>>
      [] cfg.guardrail = "intent" -> <<Message("system", IntentPromptText)>>
      [] OTHER -> <<>>

TurnBufInit ==
    /\ messages = SeededMessages(config)
    /\ max_messages = DefaultMaxMessages
    /\ ret = <<>>
    /\ aliased = FALSE
    /\ pre = <<>>
    /\ lastOp = IF messages = <<>> THEN [op |-> "init"]
                ELSE [op |-> "add", msg |-> messages[1]]
    /\ ideal = messages
    /\ nAdds = Len(messages)
    /\ nMut = 0

\* Turns a session of the model has.
MaxTurns == 2

\* The most calls of add_usage on one ledger.
MaxUsages == 2

\* The most calls of KeyboardMonitor.start on one monitor.
MaxStarts == 3

\* What the user types: not empty (lines 997 and 1010).
UserInputs == {TextHi}

\* What the classifier does when a turn asks it.
TurnReplies ==
    {[kind |-> "raises", e |-> "Connection refused"],
     [kind |-> "http", status_code |-> 200,
      json |-> <<ClassifierBody(JStr(ClsSafe))>>],
     [kind |-> "http", status_code |-> 200,
      json |-> <<ClassifierBody(JStr(ClsUnsafeS9))>>]}

Ok200(lines, broken) ==
    [kind |-> "http", status_code |-> 200, text |-> "",
     lines |-> [i \in 1..Len(lines) |-> DataPrefix \o lines[i]],
     broken |-> broken]

\* What the gateway does when a turn calls it.
TurnResponses ==
    {[kind |-> "refused", e |-> "Connection refused"],
     [kind |-> "http", status_code |-> 500, text |-> "Bad Gateway",
      lines |-> <<>>, broken |-> FALSE],
     Ok200(<<>>, FALSE),
     Ok200(<<JsonContentA, JsonContentB, JsonUsageOnly, DoneToken>>, FALSE),
     Ok200(<<JsonContentA, JsonNoChoices>>, FALSE),
     Ok200(<<JsonContentA>>, TRUE),
     Ok200(<<JsonContentObjTrue, JsonContentAnswer, JsonUsageOnly>>, FALSE),
     Ok200(<<JsonContentObjFalse, JsonContentAnswer, DoneToken>>, FALSE)}

\* history: one thing the turn did
Event(ev, text) == [ev |-> ev, text |-> text]

Events(tr) == {tr[i].ev : i \in 1..Len(tr)}

\* KeyboardMonitor.stop, lines 67-71
MonitorStopped(m) == [m EXCEPT !.monitoring = FALSE]

\* CostTracker.add_usage, lines 542-545
AddUsageOverwrites(t, input_tokens, output_tokens) ==
    [t EXCEPT !.total_input_tokens = input_tokens,
              !.total_output_tokens = output_tokens]

AddUsage(t, input_tokens, output_tokens) ==
    [t EXCEPT !.total_input_tokens = @ + input_tokens,
              !.total_output_tokens = @ + output_tokens]

(***************************************************************************)
(* TerminalChat._process_message, lines 1035-1141, one step for every      *)
(* statement that changes what the model keeps, so that a signal can fall  *)
(* between any two of them.                                                *)
(*   tpc: idle -> allowed | blocked (check_input returned)                 *)
(*        -> added (line 1045) -> starting (line 1048; in the outer try)   *)
(*        -> flag_reset (line 62) -> monitoring_set (line 63)              *)
(*        -> thread_made (line 64) -> started (line 65; start() returned)  *)
(*        -> call (in the inner try, line 1056) -> loop (line 1067)        *)
(*        -> breaking (line 1070; ESC seen) | raised (the generator raised *)
(*           and the finally has run) | after_loop                         *)
(*        -> checking (line 1095 found the flag clear and a response)      *)
(*        -> asking (the classifier failed, Confirm.ask waits)             *)
(*        -> append (the response was allowed) -> usage (line 1125)        *)
(*        -> input_added (line 544) -> finally (the inner try is done)     *)
(*        -> idle (line 1136; the turn returned)                           *)
(*   and exiting (SystemExit on its way out of the inner try) -> exited,   *)
(*   crashed (an exception line 1138 does not catch left chat()).          *)
(***************************************************************************)
\* Lines 1033-1038: the call and the input check.
ProcessMessage ==
    /\ tpc = "idle"
    /\ turns < MaxTurns
    /\ \E text \in UserInputs : \E reply \in TurnReplies :
         \E answer \in BOOLEAN :
           LET verdict == check_input(config, text, reply, answer)
           IN  /\ user_message' = text
               /\ tpc' = IF InputPasses(verdict.allowed) THEN "allowed"
                         ELSE "blocked"
               /\ trace' = <<Event(IF verdict.allowed THEN "input_allowed"
                                   ELSE "input_blocked", text)>>
    /\ snap' = [messages |-> messages, tracker |-> tracker, calls |-> calls]
    /\ turns' = turns + 1
    /\ UNCHANGED <<assistant_response, consumed, monitor, tracker>>
    /\ UNCHANGED <<bufVars, streamVars, guardVars>>

\* A step of the turn that changes its position only.
Goes(from, to) ==
    /\ tpc = from
    /\ tpc' = to
    /\ UNCHANGED <<user_message, assistant_response, consumed, monitor,
                   tracker, trace, snap, turns>>
    /\ UNCHANGED <<bufVars, streamVars, guardVars>>

\* A step of the turn that changes the monitor and the position.
MonitorGoes(from, to, m) ==
    /\ tpc = from
    /\ tpc' = to
    /\ monitor' = m
    /\ UNCHANGED <<user_message, assistant_response, consumed, tracker,
                   trace, snap, turns>>
    /\ UNCHANGED <<bufVars, streamVars, guardVars>>

\* Lines 1039-1042: the turn ends.
InputBlocked ==
    /\ tpc = "blocked"
    /\ Goes("blocked", "idle")

\* Line 1045: the user message.  The buffer of a session holds less than
\* max_messages messages, so the append of line 585 is all add_message does.
AddUser ==
    /\ tpc = "allowed"
    /\ BufferAdd("user", user_message)
    /\ tpc' = "added"
    /\ trace' = Append(trace, Event("add_user", user_message))
    /\ UNCHANGED <<user_message, assistant_response, consumed, monitor,
                   tracker, snap, turns>>
    /\ UNCHANGED <<streamVars, guardVars>>

\* Lines 1048-1051: the empty response, the outer try and the empty line.
ResetResponse ==
    /\ tpc = "added"
    /\ assistant_response' = <<>>
    /\ tpc' = "starting"
    /\ UNCHANGED <<user_message, consumed, monitor, tracker, trace, snap,
                   turns>>
    /\ UNCHANGED <<bufVars, streamVars, guardVars>>

\* Line 1054, start(): line 62
StartResetsFlag ==
    /\ tpc = "starting"
    /\ MonitorGoes("starting", "flag_reset",
                   [monitor EXCEPT !.interrupted = FALSE])

\* start(): line 63
StartSetsMonitoring ==
    /\ tpc = "flag_reset"
    /\ MonitorGoes("flag_reset", "monitoring_set",
                   [monitor EXCEPT !.monitoring = TRUE])

\* start(): line 64, the thread object
StartMakesThread ==
    /\ tpc = "monitoring_set"
    /\ MonitorGoes("monitoring_set", "thread_made",
                   [monitor EXCEPT !.thread = <<"Thread">>])

\* start(): line 65, the thread runs
StartRunsThread ==
    /\ tpc = "thread_made"
    /\ MonitorGoes("thread_made", "started",
                   [monitor EXCEPT !.running = TRUE])

\* Lines 1056-1064: the inner try, whose finally stops the monitor, is
\* entered only now.
EnterTry ==
    /\ tpc = "started"
    /\ Goes("started", "call")

\* Line 1067: get_messages() and the generator chat_stream makes of it.
OpenStream ==
    /\ tpc = "call"
    /\ \E r \in TurnResponses : NewGenerator(r)
    /\ ret' = <<messages>>
    /\ aliased' = TRUE
    /\ consumed' = 0
    /\ tpc' = "loop"
    /\ UNCHANGED <<messages, max_messages, pre, lastOp, ideal, nAdds, nMut>>
    /\ UNCHANGED <<budget, guardVars>>
    /\ UNCHANGED <<user_message, assistant_response, monitor, tracker, trace,
                   snap, turns>>

\* Line 1067, the next() of the for statement once the loop has taken the
\* fragment: the generator has control again and goes on after its yield
\* of line 691, to wait for the next line.
Resume ==
    /\ tpc = "loop"
    /\ pc = "yielded"
    /\ consumed = Len(emitted)
    /\ pc' = "fetch"
    /\ UNCHANGED <<resp, idx, emitted, outcome, interrupted, last_usage,
                   calls, prev, budget, intr>>
    /\ UNCHANGED <<bufVars, guardVars, turnVars>>

\* Lines 660-662 in the generator that has control.
FetchLine ==
    /\ pc = "fetch"
    /\ NextLine

\* Lines 1067-1074 for one fragment, ESC not pressed.
TakeChunk ==
    /\ tpc = "loop"
    /\ pc = "yielded"
    /\ consumed < Len(emitted)
    /\ ~monitor.interrupted
    /\ assistant_response' = assistant_response \o emitted[consumed + 1]
    /\ consumed' = consumed + 1
    /\ UNCHANGED <<tpc, user_message, monitor, tracker, trace, snap, turns>>
    /\ UNCHANGED <<bufVars, streamVars, guardVars>>

\* Lines 1069-1070: ESC was pressed; client.interrupt().
SeeEsc ==
    /\ tpc = "loop"
    /\ pc = "yielded"
    /\ consumed < Len(emitted)
    /\ monitor.interrupted
    /\ interrupted' = TRUE
    /\ intr' = IF intr.at = -1
               THEN [intr EXCEPT !.at = Len(emitted), !.pc = pc] ELSE intr
    /\ tpc' = "breaking"
    /\ UNCHANGED <<pc, resp, idx, emitted, outcome, last_usage, calls, prev,
                   budget>>
    /\ UNCHANGED <<user_message, assistant_response, consumed, monitor,
                   tracker, trace, snap, turns>>
    /\ UNCHANGED <<bufVars, guardVars>>

\* Lines 1071-1072: the notice and the break; the generator, suspended at
\* its yield, is closed as the loop lets go of it.
BreakOnEsc ==
    /\ tpc = "breaking"
    /\ pc' = "closed"
    /\ tpc' = "after_loop"
    /\ trace' = Append(trace, Event("interrupted", assistant_response))
    /\ UNCHANGED <<resp, idx, emitted, outcome, interrupted, last_usage,
                   calls, prev, budget, intr>>
    /\ UNCHANGED <<user_message, assistant_response, consumed, monitor,
                   tracker, snap, turns>>
    /\ UNCHANGED <<bufVars, guardVars>>

\* The generator returned: the loop of line 1067 ends.
LoopEnds ==
    /\ tpc = "loop"
    /\ pc \in {"done", "interrupted"}
    /\ tpc' = "after_loop"
    /\ UNCHANGED <<user_message, assistant_response, consumed, monitor,
                   tracker, trace, snap, turns>>
    /\ UNCHANGED <<bufVars, streamVars, guardVars>>

\* The generator raised: the exception leaves the inner try through the
\* finally of lines 1134-1136.
StopOnRaise ==
    /\ pc = "error"
    /\ MonitorGoes("loop", "raised", MonitorStopped(monitor))

\* Line 1138: except Exception
CaughtNetworkOnly(e) == IsNetworkError(e)

\* Every class is a subclass of Exception but the three that derive from
\* BaseException directly.  chat_stream lets out Exception (lines 658 and
\* 697) and whatever lines 667-687 raise that line 693 does not handle.
Caught(e) == e.type \notin {"SystemExit", "KeyboardInterrupt", "GeneratorExit"}

\* A handler that takes the user message of the failed turn back.
StreamRaisesRollsBack ==
    /\ tpc = "raised"
    /\ tpc' = IF Caught(outcome[1]) THEN "idle" ELSE "crashed"
    /\ trace' = Append(trace, Event("error", assistant_response))
    /\ messages' = snap.messages
    /\ UNCHANGED <<max_messages, ret, aliased, pre, lastOp, ideal, nAdds, nMut>>
    /\ UNCHANGED <<user_message, assistant_response, consumed, monitor,
                   tracker, snap, turns>>
    /\ UNCHANGED <<streamVars, guardVars>>

\* Lines 1138-1141, the handler; an exception it does not catch leaves
\* chat() and ends the session.
StreamRaises ==
    /\ tpc = "raised"
    /\ tpc' = IF Caught(outcome[1]) THEN "idle" ELSE "crashed"
    /\ trace' = Append(trace, Event("error", assistant_response))
    /\ UNCHANGED <<user_message, assistant_response, consumed, monitor,
                   tracker, snap, turns>>
    /\ UNCHANGED <<bufVars, streamVars, guardVars>>

\* Line 1095: not is_interrupted() and assistant_response
ChecksResponseDespiteEsc(flag, response) == response # <<>>

ChecksResponse(flag, response) == ~flag /\ response # <<>>

\* Line 1095: the flag is read once, here.  The check that follows waits
\* for the classifier and for the user's answer while the monitor thread
\* runs, so the flag may go up between this step and the verdict, which
\* does not look at it again.
TestResponse ==
    /\ tpc = "after_loop"
    /\ IF ChecksResponse(monitor.interrupted, assistant_response)
       THEN /\ tpc' = "checking"
            /\ trace' = trace
       ELSE /\ tpc' = "usage"
            /\ trace' = Append(trace, Event("not_checked", assistant_response))
    /\ UNCHANGED <<user_message, assistant_response, consumed, monitor,
                   tracker, snap, turns>>
    /\ UNCHANGED <<bufVars, streamVars, guardVars>>

\* Lines 1104-1122: what the turn does with the verdict on the response.
TakeVerdict(allowed, response) ==
    /\ assistant_response' = response
    /\ tpc' = IF OutputPasses(allowed) THEN "append" ELSE "usage"
    /\ trace' = Append(trace, Event(IF allowed THEN "output_allowed"
                                    ELSE "output_blocked",
                                    assistant_response))
    /\ UNCHANGED <<user_message, consumed, monitor, tracker, snap, turns>>
    /\ UNCHANGED <<bufVars, streamVars, guardVars>>

\* The replies of the classifier on which check_output asks the user
\* (line 837): the verdict is then the user's answer.
AsksUser(cfg, text, reply) ==
    check_output(cfg, text, reply, TRUE).asks > 0

\* Lines 1097-1119: the parse under intent, or check_output up to the
\* verdict or to the question of _handle_failure.  The request to the
\* classifier ends within the timeout of line 803.
CheckResponse ==
    /\ tpc = "checking"
    /\ IF config.guardrail = "intent"
       THEN LET parsed == parse_intent_response(assistant_response)
            IN  TakeVerdict(parsed.allowed,
                            IF parsed.allowed THEN parsed.actual_response
                            ELSE assistant_response)
       ELSE \E reply \in TurnReplies :
              IF AsksUser(config, assistant_response, reply)
              THEN Goes("checking", "asking")
              ELSE TakeVerdict(check_output(config, assistant_response,
                                            reply, TRUE).allowed,
                               assistant_response)

\* Line 837: Confirm.ask returns, which waits for the user without limit.
\* The position keeps of the failure only that the question is open; the
\* verdict depends on which failure it was by its reason alone, which the
\* turn prints and does not keep.
AnswerPrompt ==
    /\ tpc = "asking"
    /\ \E reply \in TurnReplies : \E answer \in BOOLEAN :
         /\ AsksUser(config, assistant_response, reply)
         /\ TakeVerdict(check_output(config, assistant_response, reply,
                                     answer).allowed,
                        assistant_response)

\* Lines 1112 and 1122.
AddAssistant ==
    /\ tpc = "append"
    /\ BufferAdd("assistant", assistant_response)
    /\ tpc' = "usage"
    /\ trace' = Append(trace, Event("add_assistant", assistant_response))
    /\ UNCHANGED <<user_message, assistant_response, consumed, monitor,
                   tracker, snap, turns>>
    /\ UNCHANGED <<streamVars, guardVars>>

\* Line 1125: self.cost_tracker and self.client.last_usage; the tracker
\* exists when show_cost is set (line 892).
TracksUsageNever(show_cost, usage) == FALSE

TracksUsage(show_cost, usage) == show_cost /\ usage # <<>>

\* Line 1125, and line 544 of add_usage: the input total.
TrackUsage ==
    /\ tpc = "usage"
    /\ IF TracksUsage(config.show_cost, last_usage)
       THEN /\ tracker' = AddUsage(tracker, last_usage[1].prompt_tokens, 0)
            /\ tpc' = "input_added"
       ELSE /\ tracker' = tracker
            /\ tpc' = "finally"
    /\ UNCHANGED <<user_message, assistant_response, consumed, monitor,
                   trace, snap, turns>>
    /\ UNCHANGED <<bufVars, streamVars, guardVars>>

\* Line 545 of add_usage: the output total; then the cost line of lines
\* 1130-1132.
AddOutputTokens ==
    /\ tpc = "input_added"
    /\ tracker' = AddUsage(tracker, 0, last_usage[1].completion_tokens)
    /\ tpc' = "finally"
    /\ UNCHANGED <<user_message, assistant_response, consumed, monitor,
                   trace, snap, turns>>
    /\ UNCHANGED <<bufVars, streamVars, guardVars>>

\* Line 1136: the finally of a turn that came to the end of the inner try;
\* the turn returns.
StopMonitor ==
    /\ tpc = "finally"
    /\ MonitorGoes("finally", "idle", MonitorStopped(monitor))

\* KeyboardMonitor._monitor_keyboard, lines 77-118: the thread sees ESC.
\* A thread tests monitoring at the head of its loop only (lines 86, 103);
\* between that test and the assignment of lines 90, 108 it waits for the
\* key, and stop() waits 0.1 s for it at most (line 71).  So a thread that
\* start() ran may raise the flag while monitoring is set and also after
\* stop() cleared it, and after the next start() reset the flag.  A thread
\* that has exited changes nothing the turn reads, so the turn keeps of
\* the threads only that one was run.
EscPressed ==
    /\ monitor.running
    /\ ~monitor.interrupted
    /\ monitor' = [monitor EXCEPT !.interrupted = TRUE]
    /\ UNCHANGED <<tpc, user_message, assistant_response, consumed, tracker,
                   trace, snap, turns>>
    /\ UNCHANGED <<bufVars, streamVars, guardVars>>

\* The positions inside the inner try of line 1056.
InsideTry ==
    {"call", "loop", "breaking", "after_loop", "checking", "asking",
     "append", "usage", "input_added"}

\* The positions of the generator at which its own code runs; at the
\* others the flow of the turn has control.
GeneratorRuns == {"setup", "opening", "fetch", "process"}

\* TerminalChat._handle_sigint, lines 924-927, which line 904 installs for
\* SIGINT: Goodbye is printed and sys.exit(0) raises SystemExit in the main
\* flow, wherever that stands.  Line 1138 does not catch it, so chat() is
\* left.  Raised inside the inner try it goes out through the finally of
\* line 1136; raised before line 1056, in the handler of line 1138, or in
\* the finally itself before stop() has run (which is where a signal is
\* served that came when the try was done or while an exception of the
\* generator was on its way), it leaves the monitor as it stands.  A
\* generator whose code runs lets the SystemExit out (line 696 takes
\* RequestException only); one that waits at its yield or was not yet
\* started is closed.
handle_sigint ==
    /\ tpc \notin {"exited", "crashed"}
    /\ tpc' = IF tpc \in InsideTry /\ ~(tpc = "loop" /\ pc = "error")
              THEN "exiting" ELSE "exited"
    /\ pc' = IF pc \in GeneratorRuns THEN "error"
             ELSE IF pc \in {"start", "yielded"} THEN "closed"
             ELSE pc
    /\ outcome' = IF pc \in GeneratorRuns
                  THEN <<Catch(Raised("SystemExit", <<"0">>))>>
                  ELSE outcome
    /\ UNCHANGED <<resp, idx, emitted, interrupted, last_usage, calls, prev,
                   budget, intr>>
    /\ UNCHANGED <<user_message, assistant_response, consumed, monitor,
                   tracker, trace, snap, turns>>
    /\ UNCHANGED <<bufVars, guardVars>>

\* Line 1136 with SystemExit on its way out: stop(), and chat() is left.
ExitStops ==
    /\ tpc = "exiting"
    /\ MonitorGoes("exiting", "exited", MonitorStopped(monitor))

TurnNext ==
    \/ ProcessMessage
    \/ InputBlocked
    \/ AddUser
    \/ ResetResponse
    \/ StartResetsFlag
    \/ StartSetsMonitoring
    \/ StartMakesThread
    \/ StartRunsThread
    \/ EnterTry
    \/ OpenStream
    \/ Setup
    \/ OpenRequest
    \/ ReceiveResponse
    \/ Resume
    \/ FetchLine
    \/ ProcessStep
    \/ TakeChunk
    \/ SeeEsc
    \/ BreakOnEsc
    \/ LoopEnds
    \/ StopOnRaise
    \/ StreamRaises
    \/ TestResponse
    \/ CheckResponse
    \/ AnswerPrompt
    \/ AddAssistant
    \/ TrackUsage
    \/ AddOutputTokens
    \/ StopMonitor
    \/ EscPressed
    \/ handle_sigint
    \/ ExitStops

\* The buffer as TerminalChat makes it, left alone.
BufDefault ==
    /\ messages = <<>>
    /\ max_messages = DefaultMaxMessages
    /\ ret = <<>>
    /\ aliased = FALSE
    /\ pre = <<>>
    /\ lastOp = [op |-> "init"]
    /\ ideal = <<>>
    /\ nAdds = 0
    /\ nMut = 0

vars == <<bufVars, streamVars, guardVars, turnVars>>

Init == BufInit /\ StreamInit /\ GuardIdle /\ TurnIdle

SpecBuffer == Init /\ [][BufNext]_vars

SpecAlias == Init /\ [][AliasNext]_vars

InitStream == BufDefault /\ StreamInit /\ GuardIdle /\ TurnIdle

SpecStream == InitStream /\ [][StreamNext]_vars

InitGuard == BufDefault /\ StreamInit /\ GuardInit /\ TurnIdle

SpecGuard == InitGuard /\ [][GuardNext]_vars

InitTurn == GuardInit /\ TurnBufInit /\ StreamInit /\ TurnIdle

SpecTurn == InitTurn /\ [][TurnNext]_vars

\* What the program does by itself once a turn has begun: every step but
\* the user's message, the user's answer to the question of line 837, the
\* ESC key and Ctrl-C.  None of these steps waits without limit: the
\* request to the gateway and the read of each line end within the timeout
\* of line 647, the request to the classifier within that of line 803, and
\* stop() joins the thread for 0.1 s (line 71).
TurnStep ==
    \/ InputBlocked
    \/ AddUser
    \/ ResetResponse
    \/ StartResetsFlag
    \/ StartSetsMonitoring
    \/ StartMakesThread
    \/ StartRunsThread
    \/ EnterTry
    \/ OpenStream
    \/ Setup
    \/ OpenRequest
    \/ ReceiveResponse
    \/ Resume
    \/ FetchLine
    \/ ProcessStep
    \/ TakeChunk
    \/ SeeEsc
    \/ BreakOnEsc
    \/ LoopEnds
    \/ StopOnRaise
    \/ StreamRaises
    \/ TestResponse
    \/ CheckResponse
    \/ AddAssistant
    \/ TrackUsage
    \/ AddOutputTokens
    \/ StopMonitor
    \/ ExitStops

\* The flow of _process_message goes on as long as it has a next statement.
\* The sessions with cost tracking on, where the step of line 1125 has work
\* to do, and with both directions checked.
InitCostTurn ==
    /\ InitTurn
    /\ config.show_cost
    /\ config.guardrail_check = "both"

\* The sessions looked at are those of the external strategy, where a turn
\* can end in each of its ways: allowed, blocked at the input, blocked at
\* the response, in an error of the network or of the gateway, in a failure
\* of the classifier, or interrupted.
InitTurnLive ==
    /\ InitCostTurn
    /\ config.guardrail = "external"

SpecTurnLive == InitTurnLive /\ [][TurnNext]_vars /\ WF_vars(TurnStep)

(***************************************************************************)
(* The cost ledger: CostTracker, lines 533-573.                            *)
(*                                                                         *)
(* get_cost computes with Python floats, which are IEEE-754 doubles.  A    *)
(* double is modelled by its 53-bit significand and the exponent of the    *)
(* leading bit of it: [m |-> digits, e |-> exponent] stands for the number *)
(* m * 2^(e - 52).  Whole numbers too wide for one machine word are kept   *)
(* as their digits to the base 1024, least significant digit first, with   *)
(* no leading zero digit; zero is the empty sequence, and the double zero  *)
(* has the empty significand.  Every operation computes the exact result   *)
(* and rounds it to nearest, ties to even, as the hardware does.  The      *)
(* values of the ledger are far from the subnormal and the overflow range. *)
(* The totals of a CostTracker are Python whole numbers without an upper   *)
(* limit; where get_cost is applied the ledger keeps them as digits.       *)
(***************************************************************************)
MantissaBits == 53

LimbBits == 10

RECURSIVE Pow2(_)
Pow2(k) == IF k = 0 THEN 1 ELSE 2 * Pow2(k - 1)

LimbBase == Pow2(LimbBits)

Zeros(n) == [k \in 1..n |-> 0]

RECURSIVE BitLength(_)
\* The number of binary digits of a natural number.
BitLength(n) == IF n = 0 THEN 0 ELSE 1 + BitLength(n \div 2)

RECURSIVE BigOf(_)
BigOf(n) == IF n = 0 THEN <<>> ELSE <<n % LimbBase>> \o BigOf(n \div LimbBase)

RECURSIVE BigNorm(_)
\* Without zero digits at the most significant end.
BigNorm(a) ==
    IF a = <<>> \/ a[Len(a)] # 0 THEN a
    ELSE BigNorm(SubSeq(a, 1, Len(a) - 1))

BigBits(a) ==
    IF a = <<>> THEN 0
    ELSE (Len(a) - 1) * LimbBits + BitLength(a[Len(a)])

RECURSIVE BigAddCarry(_, _, _)
BigAddCarry(a, b, carry) ==
    IF a = <<>> /\ b = <<>> THEN BigOf(carry)
    ELSE LET x == IF a = <<>> THEN 0 ELSE a[1]
             y == IF b = <<>> THEN 0 ELSE b[1]
             s == x + y + carry
         IN  <<s % LimbBase>>
             \o BigAddCarry(IF a = <<>> THEN a ELSE Tail(a),
                            IF b = <<>> THEN b ELSE Tail(b),
                            s \div LimbBase)

BigAdd(a, b) == BigAddCarry(a, b, 0)

RECURSIVE BigTimesDigit(_, _, _)
\* a * k + carry for one digit k
BigTimesDigit(a, k, carry) ==
    IF a = <<>> THEN BigOf(carry)
    ELSE LET s == a[1] * k + carry
         IN  <<s % LimbBase>> \o BigTimesDigit(Tail(a), k, s \div LimbBase)

RECURSIVE BigTimes(_, _)
BigTimes(a, b) ==
    IF b = <<>> THEN <<>>
    ELSE LET rest == BigTimes(a, Tail(b))
         IN  BigAdd(BigTimesDigit(a, b[1], 0),
                    IF rest = <<>> THEN rest ELSE <<0>> \o rest)

BigMul(a, b) == BigNorm(BigTimes(a, b))

RECURSIVE BigDivide(_, _, _)
\* Long division by a positive number below 2^21, begun with remainder r:
\* <<quotient digits, remainder>>.
BigDivide(a, d, r) ==
    IF a = <<>> THEN <<(<<>>), r>>
    ELSE LET n    == Len(a)
             cur  == r * LimbBase + a[n]
             rest == BigDivide(SubSeq(a, 1, n - 1), d, cur % d)
         IN  <<Append(rest[1], cur \div d), rest[2]>>

\* a * 2^k
ShiftLeft(a, k) ==
    IF a = <<>> THEN a
    ELSE Zeros(k \div LimbBits)
         \o BigNorm(BigTimesDigit(a, Pow2(k % LimbBits), 0))

\* <<a div 2^k, whether a nonzero rest was dropped>>
ShiftRight(a, k) ==
    LET drop == IF k \div LimbBits < Len(a) THEN k \div LimbBits ELSE Len(a)
        qr   == BigDivide(SubSeq(a, drop + 1, Len(a)), Pow2(k % LimbBits), 0)
    IN  <<BigNorm(qr[1]),
          qr[2] # 0 \/ \E j \in 1..drop : a[j] # 0>>

DoubleZero == [m |-> <<>>, e |-> 0]

\* The double nearest to n * 2^s for n > 0, where sticky tells that the
\* exact number is a little more than that.
RoundBig(n, s, sticky) ==
    LET len == BigBits(n)
        e   == s + len - 1
    IN  IF len <= MantissaBits
        THEN [m |-> ShiftLeft(n, MantissaBits - len), e |-> e]
        ELSE LET sr    == ShiftRight(n, len - MantissaBits - 1)
                 keep  == ShiftRight(sr[1], 1)[1]
                 guard == sr[1][1] % 2
                 rest  == sticky \/ sr[2]
                 up    == guard = 1 /\ (rest \/ keep[1] % 2 = 1)
                 inc   == BigAdd(keep, <<1>>)
             IN  IF ~up THEN [m |-> keep, e |-> e]
                 ELSE IF BigBits(inc) > MantissaBits
                      THEN [m |-> ShiftRight(inc, 1)[1], e |-> e + 1]
                      ELSE [m |-> inc, e |-> e]

\* float(n) of a natural number
DoubleOf(n) == IF n = 0 THEN DoubleZero ELSE RoundBig(BigOf(n), 0, FALSE)

\* a * b of two floats
FMul(a, b) ==
    IF a.m = <<>> \/ b.m = <<>> THEN DoubleZero
    ELSE RoundBig(BigMul(a.m, b.m),
                  (a.e - (MantissaBits - 1)) + (b.e - (MantissaBits - 1)),
                  FALSE)

\* a / d of a float and a positive whole number below 2^21
FDiv(a, d) ==
    IF a.m = <<>> THEN DoubleZero
    ELSE LET extra == (2 * MantissaBits) \div LimbBits
             qr    == BigDivide(Zeros(extra) \o a.m, d, 0)
         IN  RoundBig(BigNorm(qr[1]),
                      a.e - (MantissaBits - 1) - extra * LimbBits,
                      qr[2] # 0)

\* a + b of two floats
FAdd(a, b) ==
    IF a.m = <<>> THEN b
    ELSE IF b.m = <<>> THEN a
    ELSE LET low == IF a.e < b.e THEN a.e ELSE b.e
         IN  RoundBig(BigAdd(ShiftLeft(a.m, a.e - low),
                             ShiftLeft(b.m, b.e - low)),
                      low - (MantissaBits - 1), FALSE)

\* The next double above a positive one.
DoubleAbove(a) ==
    LET inc == BigAdd(a.m, <<1>>)
    IN  IF BigBits(inc) > MantissaBits
        THEN [m |-> ShiftRight(inc, 1)[1], e |-> a.e + 1]
        ELSE [m |-> inc, e |-> a.e]

\* A float literal with two decimals, given in hundredths: 5.00 is
\* Hundredths(500).  The literal denotes the double nearest to it.
Hundredths(c) == FDiv(DoubleOf(c), 100)

ModelHaiku == "anthropic/claude-haiku-4.5"

ModelGptMini == "openai/gpt-5-mini"

ModelGeminiFlash == "google/gemini-2.5-flash"

\* A model that PRICING_TABLE does not list.
ModelUnlisted == "meta-llama/llama-3-8b"

Models == {ModelHaiku, ModelGptMini, ModelGeminiFlash, ModelUnlisted}

\* PRICING_TABLE, lines 27-31: USD per million tokens
PRICING_TABLE ==
    [m \in {ModelHaiku, ModelGptMini, ModelGeminiFlash} |->
       CASE m = ModelHaiku ->
              [input |-> Hundredths(100), output |-> Hundredths(500)]
         [] m = ModelGptMini ->
              [input |-> Hundredths(25), output |-> Hundredths(200)]
         [] m = ModelGeminiFlash ->
              [input |-> Hundredths(30), output |-> Hundredths(250)]]

Million == 1000000

\* CostTracker.__init__, lines 536-540; pricing is PRICING_TABLE.get(model),
\* None for a model that is not listed.
Pricing(model) ==
    IF model \in DOMAIN PRICING_TABLE THEN <<PRICING_TABLE[model]>> ELSE <<>>

NewTracker(model) ==
    [model |-> model, total_input_tokens |-> 0, total_output_tokens |-> 0]

\* int / int of lines 552-553, for whole numbers n >= 0 given by their
\* digits and 0 < d < 2^21: Python rounds the exact quotient once, whatever
\* the size of n.
TrueDiv(n, d) ==
    IF n = <<>> THEN DoubleZero
    ELSE LET extra == (2 * MantissaBits) \div LimbBits
             qr    == BigDivide(Zeros(extra) \o n, d, 0)
         IN  RoundBig(BigNorm(qr[1]), -(extra * LimbBits), qr[2] # 0)

\* Lines 552-553: (tokens / 1_000_000) * price, rounded after the division
\* and again after the multiplication; tokens by its digits.
CostOfPerThousand(tokens, price) == FMul(TrueDiv(tokens, 1000), price)

CostOf(tokens, price) == FMul(TrueDiv(tokens, Million), price)

\* CostTracker.get_cost, lines 547-562: None is <<>>.
get_cost(t) ==
    IF Pricing(t.model) = <<>> THEN <<>>
    ELSE LET pricing     == Pricing(t.model)[1]
             input_cost  == CostOf(t.total_input_tokens, pricing.input)
             output_cost == CostOf(t.total_output_tokens, pricing.output)
         IN  <<[input_tokens |-> t.total_input_tokens,
                output_tokens |-> t.total_output_tokens,
                input_cost |-> input_cost,
                output_cost |-> output_cost,
                total_cost |-> FAdd(input_cost, output_cost)]>>

\* The token counts of one API response, as add_usage is given them.
Usages ==
    {<<0, 1>>, <<7, 0>>, <<18, 42>>, <<250, 0>>, <<Million, 2 * Million>>}

LedgerIdle ==
    /\ tpc = "idle"
    /\ user_message = <<>>
    /\ assistant_response = <<>>
    /\ consumed = 0
    /\ monitor = NoMonitor
    /\ tracker \in {NewTracker(model) : model \in Models}
    /\ trace = <<>>
    /\ snap = [messages |-> <<>>, tracker |-> NoUsage, calls |-> 0]
    /\ turns = 0

\* A call of add_usage; trace keeps the arguments of the calls so far.
AddUsageCall ==
    \E u \in Usages :
        /\ Len(trace) < MaxUsages
        /\ tracker' = AddUsage(tracker, u[1], u[2])
        /\ trace' = Append(trace, u)
        /\ gcall' = [op |-> "add_usage", input_tokens |-> u[1],
                     output_tokens |-> u[2]]
        /\ UNCHANGED <<bufVars, streamVars, config, tpc, user_message,
                       assistant_response, consumed, monitor, snap, turns>>

LedgerNext == AddUsageCall

InitLedger == BufDefault /\ StreamInit /\ GuardIdle /\ LedgerIdle

SpecLedger == InitLedger /\ [][LedgerNext]_vars

(***************************************************************************)
(* The ledger with get_cost, its totals kept as digits: the usage records  *)
(* are the token counts the server reports, whole numbers of any size      *)
(* (response.json of line 690 reads them), so that totals above 2^53,      *)
(* which no double holds exactly, are among them.                          *)
(***************************************************************************)
\* 2^53 + 1, the first whole number that is not a double.
AboveDoubles == BigAdd(ShiftLeft(<<1>>, MantissaBits), <<1>>)

CostUsages ==
    {<<BigOf(0), BigOf(1)>>,
     <<BigOf(7), BigOf(0)>>,
     <<BigOf(Million), BigOf(2 * Million)>>,
     <<AboveDoubles, BigOf(3)>>,
     <<BigOf(18), AboveDoubles>>}

\* CostTracker.__init__, lines 536-540, the totals by their digits.
NewLedger(model) ==
    [model |-> model, total_input_tokens |-> <<>>, total_output_tokens |-> <<>>]

\* CostTracker.add_usage, lines 542-545, on digits.
AddUsageDigits(t, input_tokens, output_tokens) ==
    [t EXCEPT !.total_input_tokens = BigAdd(@, input_tokens),
              !.total_output_tokens = BigAdd(@, output_tokens)]

CostIdle ==
    /\ tpc = "idle"
    /\ user_message = <<>>
    /\ assistant_response = <<>>
    /\ consumed = 0
    /\ monitor = NoMonitor
    /\ tracker \in {NewLedger(model) : model \in Models}
    /\ trace = <<>>
    /\ snap = [messages |-> <<>>, tracker |-> NoUsage, calls |-> 0]
    /\ turns = 0

\* A call of add_usage; trace keeps the arguments of the calls so far.
AddUsageDigitsCall ==
    \E u \in CostUsages :
        /\ Len(trace) < MaxUsages
        /\ tracker' = AddUsageDigits(tracker, u[1], u[2])
        /\ trace' = Append(trace, u)
        /\ gcall' = [op |-> "add_usage", input_tokens |-> u[1],
                     output_tokens |-> u[2]]
        /\ UNCHANGED <<bufVars, streamVars, config, tpc, user_message,
                       assistant_response, consumed, monitor, snap, turns>>

\* A call of get_cost, which assigns to no field of the tracker; earlier
\* is the result of the call before it when no add_usage came in between.
GetCostCall ==
    /\ gcall' = [op |-> "get_cost", result |-> get_cost(tracker),
                 earlier |-> IF gcall.op = "get_cost"
                             THEN <<gcall.result>> ELSE <<>>]
    /\ UNCHANGED <<bufVars, streamVars, config, turnVars>>

CostNext == AddUsageDigitsCall \/ GetCostCall

InitCost == BufDefault /\ StreamInit /\ GuardIdle /\ CostIdle

SpecCost == InitCost /\ [][CostNext]_vars

(***************************************************************************)
(* _format_guardrail_reason as a function of the raw classifier text: the  *)
(* texts are put together from an opening, a body and an ending.           *)
(***************************************************************************)
\* the empty text
OpenNone == <<>>

\* unsafe\n
OpenUnsafeLine ==
    <<"u", "n", "s", "a", "f", "e", "\n">>

\* Unsafe 
OpenUnsafeCapital ==
    <<"U", "n", "s", "a", "f", "e", " ">>

\*   UNSAFE\n\n 
OpenUnsafeSpaced ==
    <<" ", " ", "U", "N", "S", "A", "F", "E", "\n", "\n", " ">>

\* unsafe
OpenUnsafeJoined ==
    <<"u", "n", "s", "a", "f", "e">>

\* the empty text
BodyNone == <<>>

\* S9
BodyS9 ==
    <<"S", "9">>

\* S1,S10
BodyS1S10 ==
    <<"S", "1", ",", "S", "1", "0">>

\* S10
BodyS10 ==
    <<"S", "1", "0">>

\* S14
BodyS14 ==
    <<"S", "1", "4">>

\* S15
BodyS15 ==
    <<"S", "1", "5">>

\* S99,S1
BodyS99S1 ==
    <<"S", "9", "9", ",", "S", "1">>

\* S01
BodyS01 ==
    <<"S", "0", "1">>

\* s9
BodyLowerS9 ==
    <<"s", "9">>

\* the empty text
EndNone == <<>>

\*  \n
EndSpace ==
    <<" ", "\n">>

\* : Violent Crimes
EndViolentCrimes ==
    <<":", " ", "V", "i", "o", "l", "e", "n", "t", " ", "C", "r", "i", "m",
      "e", "s">>

\* : indiscriminate weapons
EndWeaponsLower ==
    <<":", " ", "i", "n", "d", "i", "s", "c", "r", "i", "m", "i", "n", "a",
      "t", "e", " ", "w", "e", "a", "p", "o", "n", "s">>

RawOpenings == {OpenNone, OpenUnsafeLine, OpenUnsafeCapital, OpenUnsafeSpaced, OpenUnsafeJoined}

RawBodies ==
    {BodyNone, BodyS9, BodyS1S10, BodyS10, BodyS14,
     BodyS15, BodyS99S1, BodyS01, BodyLowerS9}

RawEndings == {EndNone, EndSpace, EndViolentCrimes, EndWeaponsLower}

RawReasons ==
    {open \o body \o end : open \in RawOpenings, body \in RawBodies,
                           end \in RawEndings}

\* A call of _format_guardrail_reason.
FormatReason ==
    \E reason \in RawReasons :
        /\ gcall' = [op |-> "format_guardrail_reason", reason |-> reason,
                     result |-> format_guardrail_reason(reason)]
        /\ UNCHANGED <<bufVars, streamVars, config, turnVars>>

SpecFormat == InitStream /\ [][FormatReason]_vars

(***************************************************************************)
(* TerminalChat._sanitize_error_message, lines 906-922.                    *)
(***************************************************************************)
\* a-zA-Z: the 26 letters of ASCII, which stand first in both tables.
Letters ==
    {UpperCase[k] : k \in 1..26} \cup {LowerCase[k] : k \in 1..26}

\* [a-zA-Z0-9]
IsKeyChar(c) == c \in Letters \cup Digits

\* [a-zA-Z0-9_-]
IsTokenChar(c) == c \in Letters \cup Digits \cup {"_", "-"}

\* [^&\s]
IsValueChar(c) == c # "&" /\ ~IsSpace(c)

\* The literal lit stands in s at position i.
MatchAt(s, i, lit) ==
    i + Len(lit) - 1 <= Len(s) /\ SubSeq(s, i, i + Len(lit) - 1) = lit

\* The end of the longest run of characters of a class that begins at
\* position i of s; i - 1 when there is none.
RunEnd(s, i, InClass(_)) ==
    LET stops == {k \in i..Len(s) : ~InClass(s[k])}
    IN  IF stops = {} THEN Len(s)
        ELSE (CHOOSE k \in stops : \A m \in stops : k <= m) - 1

\* sk-
KeyPrefix ==
    <<"s", "k", "-">>

\* Bearer
BearerWord ==
    <<"B", "e", "a", "r", "e", "r">>

\* [REDACTED_API_KEY]
MaskApiKey ==
    <<"[", "R", "E", "D", "A", "C", "T", "E", "D", "_", "A", "P", "I", "_",
      "K", "E", "Y", "]">>

\* [REDACTED_TOKEN]
MaskToken ==
    <<"[", "R", "E", "D", "A", "C", "T", "E", "D", "_", "T", "O", "K", "E",
      "N", "]">>

\* [REDACTED]
MaskValue ==
    <<"[", "R", "E", "D", "A", "C", "T", "E", "D", "]">>

\* api_key
ParamApiKey ==
    <<"a", "p", "i", "_", "k", "e", "y">>

\* token
ParamToken ==
    <<"t", "o", "k", "e", "n">>

\* key
ParamKey ==
    <<"k", "e", "y">>

\* auth
ParamAuth ==
    <<"a", "u", "t", "h">>

\* The alternatives of (api_key|token|key|auth), in the order tried.
ParamNames == <<ParamApiKey, ParamToken, ParamKey, ParamAuth>>

\* {20,} of line 912
MinKeyLength == 20

RECURSIVE RedactApiKeys(_, _)
\* re.sub(r'sk-[a-zA-Z0-9]{20,}', '[REDACTED_API_KEY]', s), from position i
RedactApiKeys(s, i) ==
    IF i > Len(s) THEN <<>>
    ELSE LET from == i + Len(KeyPrefix)
             to   == RunEnd(s, from, IsKeyChar)
         IN  IF MatchAt(s, i, KeyPrefix) /\ to - from + 1 >= MinKeyLength
             THEN MaskApiKey \o RedactApiKeys(s, to + 1)
             ELSE <<s[i]>> \o RedactApiKeys(s, i + 1)

RECURSIVE RedactBearer(_, _)
\* re.sub(r'Bearer\s+[a-zA-Z0-9_-]+', 'Bearer [REDACTED_TOKEN]', s), from
\* position i
RedactBearer(s, i) ==
    IF i > Len(s) THEN <<>>
    ELSE LET blank == i + Len(BearerWord)
             from  == RunEnd(s, blank, IsSpace) + 1
             to    == RunEnd(s, from, IsTokenChar)
         IN  IF MatchAt(s, i, BearerWord) /\ from > blank /\ to >= from
             THEN BearerWord \o <<" ">> \o MaskToken
                  \o RedactBearer(s, to + 1)
             ELSE <<s[i]>> \o RedactBearer(s, i + 1)

RECURSIVE Replace(_, _, _, _)
\* s.replace(old, new) for a non-empty old, from position i
Replace(s, old, new, i) ==
    IF i > Len(s) THEN <<>>
    ELSE IF MatchAt(s, i, old) THEN new \o Replace(s, old, new, i + Len(old))
    ELSE <<s[i]>> \o Replace(s, old, new, i + 1)

RECURSIVE RedactParams(_, _)
\* re.sub(r'([?&])(api_key|token|key|auth)=[^&\s]+', r'\1\2=[REDACTED]', s),
\* from position i
RedactParams(s, i) ==
    IF i > Len(s) THEN <<>>
    ELSE LET fits(k) == /\ MatchAt(s, i + 1, ParamNames[k] \o <<"=">>)
                        /\ RunEnd(s, i + 2 + Len(ParamNames[k]), IsValueChar)
                             >= i + 2 + Len(ParamNames[k])
             found   == {k \in 1..Len(ParamNames) : fits(k)}
         IN  IF s[i] \in {"?", "&"} /\ found # {}
             THEN LET k    == CHOOSE x \in found : \A y \in found : x <= y
                      from == i + 2 + Len(ParamNames[k])
                  IN  <<s[i]>> \o ParamNames[k] \o <<"=">> \o MaskValue
                      \o RedactParams(s, RunEnd(s, from, IsValueChar) + 1)
             ELSE <<s[i]>> \o RedactParams(s, i + 1)

\* _sanitize_error_message with config.api_token = api_token
sanitize_error_message(api_token, error_msg) ==
    LET keys    == RedactApiKeys(error_msg, 1)
        bearers == RedactBearer(keys, 1)
        actual  == IF api_token # <<>> /\ Contains(bearers, api_token)
                   THEN Replace(bearers, api_token, MaskToken, 1)
                   ELSE bearers
    IN  RedactParams(actual, 1)

(***************************************************************************)
(* The error texts: a lead, a secret in some place, and a tail.  The       *)
(* secrets are written with q, w, 7 and 9, which no other part uses.       *)
(***************************************************************************)
\* q7w9
SecretPlain ==
    <<"q", "7", "w", "9">>

\* q7_w-9
SecretDashed ==
    <<"q", "7", "_", "w", "-", "9">>

\* q7.w9
SecretDotted ==
    <<"q", "7", ".", "w", "9">>

\* sk-q7w9q7w9q7w9q7w9q7w9
SecretApiKey ==
    <<"s", "k", "-", "q", "7", "w", "9", "q", "7", "w", "9", "q", "7", "w",
      "9", "q", "7", "w", "9", "q", "7", "w", "9">>

\* sk-or-v1-q7w9
SecretRouterKey ==
    <<"s", "k", "-", "o", "r", "-", "v", "1", "-", "q", "7", "w", "9">>

\* the empty text
LeadNone == <<>>

\* Error 401: 
LeadStatus ==
    <<"E", "r", "r", "o", "r", " ", "4", "0", "1", ":", " ">>

\* the empty text
TailNone == <<>>

\*  rejected
TailRejected ==
    <<" ", "r", "e", "j", "e", "c", "t", "e", "d">>

\* &stream=1
TailParam ==
    <<"&", "s", "t", "r", "e", "a", "m", "=", "1">>

\* Authorization: Bearer 
PlaceBearer ==
    <<"A", "u", "t", "h", "o", "r", "i", "z", "a", "t", "i", "o", "n", ":",
      " ", "B", "e", "a", "r", "e", "r", " ">>

\* Bearer 	
PlaceBearerTab ==
    <<"B", "e", "a", "r", "e", "r", " ", "\t">>

\* GET /v1/chat?api_key=
PlaceApiKey ==
    <<"G", "E", "T", " ", "/", "v", "1", "/", "c", "h", "a", "t", "?", "a",
      "p", "i", "_", "k", "e", "y", "=">>

\* /v1/chat?model=x&token=
PlaceToken ==
    <<"/", "v", "1", "/", "c", "h", "a", "t", "?", "m", "o", "d", "e", "l",
      "=", "x", "&", "t", "o", "k", "e", "n", "=">>

\* ?key=
PlaceKey ==
    <<"?", "k", "e", "y", "=">>

\* &auth=
PlaceAuth ==
    <<"&", "a", "u", "t", "h", "=">>

\* Token 
PlaceBare ==
    <<"T", "o", "k", "e", "n", " ">>

SecretChars == {"q", "w", "7", "9"}

Secrets ==
    {SecretPlain, SecretDashed, SecretDotted, SecretApiKey, SecretRouterKey}

\* config.api_token; the empty text is no token.
ApiTokens == {<<>>, SecretRouterKey, SecretDotted}

BearerPlaces == {PlaceBearer, PlaceBearerTab}

ParamPlaces == {PlaceApiKey, PlaceToken, PlaceKey, PlaceAuth}

Leads == {LeadNone, LeadStatus}

Tails == {TailNone, TailRejected, TailParam}

\* A call of _sanitize_error_message: the text holds the secret after
\* Bearer or in a query parameter, or the configured token anywhere.
SanitizeError ==
    \E api_token \in ApiTokens : \E lead \in Leads : \E tail \in Tails :
      \E secret \in Secrets :
        \E place \in BearerPlaces \cup ParamPlaces \cup {PlaceBare} :
          /\ place = PlaceBare => (api_token # <<>> /\ secret = api_token)
          /\ LET error_msg == lead \o place \o secret \o tail
             IN  gcall' = [op |-> "sanitize_error_message",
                           api_token |-> api_token, place |-> place,
                           secret |-> secret, error_msg |-> error_msg,
                           result |-> sanitize_error_message(api_token,
                                                             error_msg)]
          /\ UNCHANGED <<bufVars, streamVars, config, turnVars>>

SpecSanitize == InitStream /\ [][SanitizeError]_vars

(***************************************************************************)
(* KeyboardMonitor with its threads, lines 52-118, as _process_message     *)
(* uses it (start at line 1054, stop in the finally of line 1136) and as   *)
(* a caller of the class may.  monitor.thread is the thread of the last    *)
(* start(), monitor.alive the threads that have not exited, of which       *)
(* monitor.looping are those that have not left the loop of lines 86 and   *)
(* 103, and monitor.started the number of threads created so far.          *)
(***************************************************************************)
NewMonitor ==
    [interrupted |-> FALSE, monitoring |-> FALSE, thread |-> <<>>,
     alive |-> {}, looping |-> {}, started |-> 0]

\* KeyboardMonitor.start, lines 60-65: a new thread at every call.
start(m) ==
    [m EXCEPT !.interrupted = FALSE,
              !.monitoring = TRUE,
              !.thread = <<m.started + 1>>,
              !.alive = @ \cup {m.started + 1},
              !.looping = @ \cup {m.started + 1},
              !.started = @ + 1]

\* A stop() that also clears the interrupt flag.
stopClearsFlag(m, joined) ==
    [m EXCEPT !.monitoring = FALSE,
              !.interrupted = FALSE,
              !.alive = IF joined /\ m.thread # <<>>
                        THEN @ \ {m.thread[1]} ELSE @,
              !.looping = IF joined /\ m.thread # <<>>
                          THEN @ \ {m.thread[1]} ELSE @]

\* KeyboardMonitor.stop, lines 67-71.  join(timeout=0.1) waits for the
\* thread of the last start(): joined tells whether that thread saw the
\* cleared flag and exited within the timeout.
stop(m, joined) ==
    [m EXCEPT !.monitoring = FALSE,
              !.alive = IF joined /\ m.thread # <<>>
                        THEN @ \ {m.thread[1]} ELSE @,
              !.looping = IF joined /\ m.thread # <<>>
                          THEN @ \ {m.thread[1]} ELSE @]

MonitorIdle ==
    /\ tpc = "idle"
    /\ user_message = <<>>
    /\ assistant_response = <<>>
    /\ consumed = 0
    /\ monitor = NewMonitor
    /\ tracker = NoUsage
    /\ trace = <<>>
    /\ snap = [messages |-> <<>>, tracker |-> NoUsage, calls |-> 0]
    /\ turns = 0

monitorFrame ==
    <<bufVars, streamVars, guardVars, user_message, assistant_response,
      consumed, tracker, trace, snap>>

\* Line 1054: a turn reaches streaming.
TurnStartsMonitor ==
    /\ tpc = "idle"
    /\ monitor.started < MaxStarts
    /\ monitor' = start(monitor)
    /\ tpc' = "loop"
    /\ turns' = turns + 1
    /\ UNCHANGED monitorFrame

\* Line 1136: the finally of the turn, reached on every way out.
TurnStopsMonitor ==
    \E joined \in BOOLEAN :
        /\ tpc = "loop"
        /\ monitor' = stop(monitor, joined)
        /\ tpc' = "idle"
        /\ UNCHANGED <<monitorFrame, turns>>

\* start() called again before stop(), as test_multiple_start_calls does.
StartAgain ==
    /\ tpc = "loop"
    /\ monitor.started < MaxStarts
    /\ monitor' = start(monitor)
    /\ UNCHANGED <<monitorFrame, tpc, turns>>

\* Lines 86-91 and 103-109: a thread in its loop, which found monitoring
\* set, reads ESC, sets interrupted and leaves the loop by the break.  It
\* tests monitoring at the head of the loop only and then waits for the
\* key, so the assignment may come after a stop() that did not wait long
\* enough (line 71).  The thread is alive until it has done the finally of
\* lines 112-118.
ThreadReadsEsc ==
    \E t \in monitor.looping :
        /\ monitor' = [monitor EXCEPT !.interrupted = TRUE,
                                      !.looping = @ \ {t}]
        /\ UNCHANGED <<monitorFrame, tpc, turns>>

\* A thread leaves its loop without a key: it finds monitoring cleared
\* (lines 86 and 103), or an exception ends the loop while monitoring is
\* still set, which line 110 swallows (termios.tcgetattr of line 99 raises
\* when stdin is not a terminal).
ThreadLeaves ==
    \E t \in monitor.looping :
        /\ monitor' = [monitor EXCEPT !.looping = @ \ {t}]
        /\ UNCHANGED <<monitorFrame, tpc, turns>>

\* Lines 112-118: a thread that left its loop restores the terminal and
\* ends.
ThreadExits ==
    \E t \in monitor.alive \ monitor.looping :
        /\ monitor' = [monitor EXCEPT !.alive = @ \ {t}]
        /\ UNCHANGED <<monitorFrame, tpc, turns>>

MonitorNext ==
    \/ TurnStartsMonitor
    \/ TurnStopsMonitor
    \/ StartAgain
    \/ ThreadReadsEsc
    \/ ThreadLeaves
    \/ ThreadExits

InitMonitor == BufDefault /\ StreamInit /\ GuardIdle /\ MonitorIdle

SpecMonitor == InitMonitor /\ [][MonitorNext]_vars

(***************************************************************************)
(* chat_stream on responses whose events carry, or do not carry, a usage   *)
(* field: the calls of the stream model, with the lines drawn from         *)
(* UsageLines.                                                             *)
(***************************************************************************)
UsageLines ==
    {DataPrefix \o p : p \in {JsonContentA, JsonUsageOnly,
                              JsonEmptyContentUsage, JsonUsageEmpty,
                              JsonUsageNull, JsonMalformed, DoneToken}}

UsageResponses(n) ==
    {[kind |-> "http", status_code |-> 200, text |-> "", lines |-> l,
      broken |-> FALSE] : l \in SeqsUpTo(UsageLines, n - 1)}

ChatStreamUsage == \E r \in UsageResponses(budget) : chat_stream(r)

UsageNext ==
    \/ ChatStreamUsage
    \/ Setup
    \/ OpenRequest
    \/ ReceiveResponse
    \/ NextLine
    \/ ProcessStep
    \/ InterruptByConsumer

SpecUsage == InitStream /\ [][UsageNext]_vars

(***************************************************************************)
(* chat_stream on responses with lines that are no events of the protocol: *)
(* payloads that are not JSON, in ASCII and not, numbers where the         *)
(* protocol has objects and texts, and bytes that are not UTF-8, among     *)
(* events that are.                                                        *)
(***************************************************************************)
DecodeLines ==
    {DataPrefix \o p : p \in {JsonContentA, JsonContentB, JsonMalformed,
                              JsonNaN, JsonFloatZeros, BytesNotUtf8,
                              BytesEAcute, DoneToken}}

DecodeResponses(n) ==
    {[kind |-> "http", status_code |-> 200, text |-> "", lines |-> l,
      broken |-> FALSE] : l \in SeqsUpTo(DecodeLines, n - 1)}

ChatStreamDecode == \E r \in DecodeResponses(budget) : chat_stream(r)

DecodeNext ==
    \/ ChatStreamDecode
    \/ Setup
    \/ OpenRequest
    \/ ReceiveResponse
    \/ NextLine
    \/ ProcessStep

SpecDecode == InitStream /\ [][DecodeNext]_vars

(***************************************************************************)
(* Turns with cost tracking on, against a gateway whose streams carry a    *)
(* usage record early, late or not at all: the steps of the turn model,    *)
(* with the responses drawn from UsageTurnResponses.                       *)
(***************************************************************************)
UsageTurnResponses ==
    {[kind |-> "refused", e |-> "Connection refused"],
     Ok200(<<JsonContentA>>, FALSE),
     Ok200(<<JsonUsageOnly, JsonContentA, DoneToken>>, FALSE),
     Ok200(<<JsonContentB, JsonEmptyContentUsage, DoneToken>>, FALSE),
     Ok200(<<JsonUsageOnly, JsonNoChoices>>, FALSE)}

\* Line 1067, as OpenStream.
OpenStreamUsage ==
    /\ tpc = "call"
    /\ \E r \in UsageTurnResponses : NewGenerator(r)
    /\ ret' = <<messages>>
    /\ aliased' = TRUE
    /\ consumed' = 0
    /\ tpc' = "loop"
    /\ UNCHANGED <<messages, max_messages, pre, lastOp, ideal, nAdds, nMut>>
    /\ UNCHANGED <<budget, guardVars>>
    /\ UNCHANGED <<user_message, assistant_response, monitor, tracker, trace,
                   snap, turns>>

UsageTurnNext ==
    \/ ProcessMessage
    \/ InputBlocked
    \/ AddUser
    \/ ResetResponse
    \/ StartResetsFlag
    \/ StartSetsMonitoring
    \/ StartMakesThread
    \/ StartRunsThread
    \/ EnterTry
    \/ OpenStreamUsage
    \/ Setup
    \/ OpenRequest
    \/ ReceiveResponse
    \/ Resume
    \/ FetchLine
    \/ ProcessStep
    \/ TakeChunk
    \/ SeeEsc
    \/ BreakOnEsc
    \/ LoopEnds
    \/ StopOnRaise
    \/ StreamRaises
    \/ TestResponse
    \/ CheckResponse
    \/ AnswerPrompt
    \/ AddAssistant
    \/ TrackUsage
    \/ AddOutputTokens
    \/ StopMonitor
    \/ EscPressed
    \/ handle_sigint
    \/ ExitStops

SpecUsageTurn == InitCostTurn /\ [][UsageTurnNext]_vars

(***************************************************************************)
(* The session: main, lines 1174-1180, and TerminalChat.chat, lines        *)
(* 996-1033.  The initial message of the command line, then the loop of    *)
(* the prompt: each input ends the session, is skipped, clears the buffer, *)
(* is rejected as too long, or begins a turn.  gcall remembers the last    *)
(* input and what chat() did with it; tpc = "exited" once chat() returned. *)
(***************************************************************************)
\* Hello
TextHello ==
    <<"H", "e", "l", "l", "o">>

\* Hi between a blank and a line feed
TextHiPadded ==
    <<" ", "H", "i", "\n">>

\* two blanks
TextBlank ==
    <<" ", " ">>

\* /clear
TextClear ==
    <<"/", "c", "l", "e", "a", "r">>

\* /CLEAR
TextClearUpper ==
    <<"/", "C", "L", "E", "A", "R">>

\* bye
TextBye ==
    <<"b", "y", "e">>

\* quit
TextQuit ==
    <<"q", "u", "i", "t">>

\* exit
TextExit ==
    <<"e", "x", "i", "t">>

\* Bye
TextByeCapital ==
    <<"B", "y", "e">>

\* config.max_input_length, as MAX_INPUT_LENGTH of the configuration file
\* sets it (line 451).
max_input_length == 2

\* What the user types at the prompt; <<>> stands for EOF or Ctrl-C.
TypedInputs ==
    {<<>>, <<TextHi>>, <<TextHiPadded>>, <<TextBlank>>, <<TextHello>>,
     <<TextClear>>, <<TextClearUpper>>, <<TextByeCapital>>}

\* The words of the command line, joined by line 1176.
InitialMessages == {TextHi, TextHello}

\* _get_user_input, lines 929-959: None, or the stripped input.
get_user_input(typed) == IF typed = <<>> THEN <<>> ELSE <<Strip(typed[1])>>

\* _is_exit_command, lines 961-963
is_exit_command(text) == Lower(text) \in {TextBye, TextQuit, TextExit}

\* Lines 1006-1033: what the loop does with user_input.
Decide(user_input) ==
    CASE user_input = <<>> -> "goodbye"
      [] user_input # <<>> /\ user_input[1] = <<>> -> "skip"
      [] user_input # <<>> /\ user_input[1] # <<>>
           /\ is_exit_command(user_input[1]) -> "goodbye"
      [] OTHER ->
           IF Lower(Strip(user_input[1])) = TextClear THEN "clear"
           ELSE IF Len(user_input[1]) > max_input_length THEN "too_long"
           ELSE "message"

ChatCall(user_input, did) ==
    [op |-> "chat", user_input |-> user_input, did |-> did]

\* _process_message(text) up to the verdict of check_input, lines
\* 1035-1038, as ProcessMessage for the text given.
process_message(text) ==
    /\ tpc = "idle"
    /\ turns < MaxTurns
    /\ \E reply \in TurnReplies : \E answer \in BOOLEAN :
           LET verdict == check_input(config, text, reply, answer)
           IN  /\ user_message' = text
               /\ tpc' = IF InputPasses(verdict.allowed) THEN "allowed"
                         ELSE "blocked"
               /\ trace' = <<Event(IF verdict.allowed THEN "input_allowed"
                                   ELSE "input_blocked", text)>>
    /\ snap' = [messages |-> messages, tracker |-> tracker, calls |-> calls]
    /\ turns' = turns + 1
    /\ UNCHANGED <<assistant_response, consumed, monitor, tracker>>
    /\ UNCHANGED <<bufVars, streamVars, config>>

\* Lines 997-999: the initial message, if there is one.
InitialMessage ==
    /\ gcall = NoCall
    /\ turns = 0
    /\ \E text \in InitialMessages :
         /\ text # <<>>
         /\ process_message(text)
         /\ gcall' = ChatCall(<<text>>, "initial")

\* Line 1033: the input begins a turn.
PromptMessage ==
    \E typed \in TypedInputs :
      LET user_input == get_user_input(typed)
      IN  /\ Decide(user_input) = "message"
          /\ process_message(user_input[1])
          /\ gcall' = ChatCall(user_input, "message")

\* Lines 1017-1021: /clear.
PromptClear ==
    \E typed \in TypedInputs :
      LET user_input == get_user_input(typed)
      IN  /\ tpc = "idle"
          /\ Decide(user_input) = "clear"
          /\ messages' = ClearResult(messages)
          /\ aliased' = FALSE
          /\ pre' = messages
          /\ lastOp' = [op |-> "clear"]
          /\ ideal' = ClearResult(ideal)
          /\ gcall' = ChatCall(user_input, "clear")
          /\ UNCHANGED <<max_messages, ret, nAdds, nMut>>
          /\ UNCHANGED <<streamVars, turnVars, config>>

\* Lines 1010-1011 and 1023-1030: an empty input, or one too long.
PromptRejected ==
    \E typed \in TypedInputs :
      LET user_input == get_user_input(typed)
      IN  /\ tpc = "idle"
          /\ Decide(user_input) \in {"skip", "too_long"}
          /\ gcall' = ChatCall(user_input, Decide(user_input))
          /\ UNCHANGED <<bufVars, streamVars, turnVars, config>>

\* Lines 1006-1008 and 1013-1015: chat() returns.
PromptGoodbye ==
    \E typed \in TypedInputs :
      LET user_input == get_user_input(typed)
      IN  /\ tpc = "idle"
          /\ Decide(user_input) = "goodbye"
          /\ tpc' = "exited"
          /\ gcall' = ChatCall(user_input, "goodbye")
          /\ UNCHANGED <<user_message, assistant_response, consumed, monitor,
                         tracker, trace, snap, turns>>
          /\ UNCHANGED <<bufVars, streamVars, config>>

SessionNext ==
    \/ InitialMessage
    \/ PromptMessage
    \/ PromptClear
    \/ PromptRejected
    \/ PromptGoodbye
    \/ InputBlocked
    \/ AddUser
    \/ ResetResponse
    \/ StartResetsFlag
    \/ StartSetsMonitoring
    \/ StartMakesThread
    \/ StartRunsThread
    \/ EnterTry
    \/ OpenStream
    \/ Setup
    \/ OpenRequest
    \/ ReceiveResponse
    \/ Resume
    \/ FetchLine
    \/ ProcessStep
    \/ TakeChunk
    \/ SeeEsc
    \/ BreakOnEsc
    \/ LoopEnds
    \/ StopOnRaise
    \/ StreamRaises
    \/ TestResponse
    \/ CheckResponse
    \/ AnswerPrompt
    \/ AddAssistant
    \/ TrackUsage
    \/ AddOutputTokens
    \/ StopMonitor
    \/ EscPressed
    \/ handle_sigint
    \/ ExitStops

\* The sessions looked at are those with cost tracking and with both
\* directions checked: neither setting has a part in what chat() does with
\* an input.
InitSession ==
    /\ InitTurn
    /\ config.show_cost
    /\ config.guardrail_check = "both"

SpecSession == InitSession /\ [][SessionNext]_vars

(***************************************************************************)
(* Turns against a gateway whose responses are an intent analysis with or  *)
(* without an answer after it: the steps of the turn model, with the       *)
(* responses drawn from IntentTurnResponses.                               *)
(***************************************************************************)
IntentTurnResponses ==
    {[kind |-> "refused", e |-> "Connection refused"],
     Ok200(<<JsonContentObjTrue, DoneToken>>, FALSE),
     Ok200(<<JsonContentObjTrue, JsonContentAnswer, JsonUsageOnly,
             DoneToken>>, FALSE),
     Ok200(<<JsonContentObjFalse, DoneToken>>, FALSE),
     Ok200(<<JsonContentA, DoneToken>>, FALSE)}

\* Line 1067, as OpenStream.
OpenStreamIntent ==
    /\ tpc = "call"
    /\ \E r \in IntentTurnResponses : NewGenerator(r)
    /\ ret' = <<messages>>
    /\ aliased' = TRUE
    /\ consumed' = 0
    /\ tpc' = "loop"
    /\ UNCHANGED <<messages, max_messages, pre, lastOp, ideal, nAdds, nMut>>
    /\ UNCHANGED <<budget, guardVars>>
    /\ UNCHANGED <<user_message, assistant_response, monitor, tracker, trace,
                   snap, turns>>

IntentTurnNext ==
    \/ ProcessMessage
    \/ InputBlocked
    \/ AddUser
    \/ ResetResponse
    \/ StartResetsFlag
    \/ StartSetsMonitoring
    \/ StartMakesThread
    \/ StartRunsThread
    \/ EnterTry
    \/ OpenStreamIntent
    \/ Setup
    \/ OpenRequest
    \/ ReceiveResponse
    \/ Resume
    \/ FetchLine
    \/ ProcessStep
    \/ TakeChunk
    \/ SeeEsc
    \/ BreakOnEsc
    \/ LoopEnds
    \/ StopOnRaise
    \/ StreamRaises
    \/ TestResponse
    \/ CheckResponse
    \/ AnswerPrompt
    \/ AddAssistant
    \/ TrackUsage
    \/ AddOutputTokens
    \/ StopMonitor
    \/ EscPressed
    \/ handle_sigint
    \/ ExitStops

SpecIntentTurn == InitTurn /\ [][IntentTurnNext]_vars

(***************************************************************************)
(* Claims about the conversation buffer.                                   *)
(***************************************************************************)
EvictingAdd == lastOp.op = "add" /\ Len(pre) + 1 > max_messages

\* The k most recent elements of s (all of s when it has fewer).
LastK(s, k) == IF k >= Len(s) THEN s ELSE SubSeq(s, Len(s) - k + 1, Len(s))

\* C1: after every add_message the buffer holds at most max_messages
\* messages, for every capacity N >= 1 and every sequence of roles.
C1_LengthAtMostCapacity ==
    lastOp.op = "add" => Len(messages) <= max_messages

\* C2: a system message at index 0 before an add_message is still at
\* index 0, unchanged, after it, whether or not the add evicted.
C2_SystemStaysFirst ==
    (lastOp.op = "add" /\ Len(pre) > 0 /\ pre[1].role = "system")
        => (Len(messages) > 0 /\ messages[1] = pre[1])

C2_Witness ==
    /\ EvictingAdd
    /\ max_messages >= 2
    /\ Len(pre) > 0 /\ pre[1].role = "system"
    /\ messages[1] = pre[1]
    /\ Len(messages) < Len(pre) + 1

\* C3: after an evicting add_message the buffer is the leading system
\* message followed by the N-1 most recent other messages, or, without a
\* leading system message, the N most recent messages, in their order.
C3_Expected(full, n) ==
    IF full[1].role = "system"
    THEN <<full[1]>> \o LastK(Tail(full), n - 1)
    ELSE LastK(full, n)

C3_EvictionResult ==
    EvictingAdd => messages = C3_Expected(Append(pre, lastOp.msg), max_messages)

\* C4: clear() empties the buffer whatever it held and keeps the capacity;
\* the add_message that follows a clear() leaves exactly its own message.
C4_ClearThenAdd ==
    [][ /\ (lastOp'.op = "clear") =>
              (messages' = <<>> /\ max_messages' = max_messages)
        /\ (lastOp.op = "clear" /\ lastOp'.op = "add") =>
              (messages' = <<lastOp'.msg>>) ]_vars

C4_Witness ==
    /\ lastOp.op = "clear"
    /\ Len(pre) > 1 /\ pre[1].role = "system"
    /\ messages = <<>>

\* C5: mutating the list get_messages() returned does not change the
\* buffer: it stays what add_message and clear alone have made it.
C5_BufferIsolated == messages = ideal

(***************************************************************************)
(* Claims about chat_stream.                                               *)
(***************************************************************************)
Streamed == resp.kind = "http" /\ resp.status_code = 200

\* The content a line carries as a well-formed data event: the text at
\* choices[0].delta.content, empty when the line has none.
C6_ContentOf(line) ==
    IF ~StartsWith(line, DataPrefix) THEN <<>>
    ELSE LET parsed == JsonLoads(SubSeq(line, 7, Len(line)))
         IN  IF parsed = <<>> \/ parsed[1].t # "dict" THEN <<>>
             ELSE LET choices == Get(parsed[1], "choices", JList(<<>>))
                  IN  IF choices.t # "list" \/ Len(choices.v) = 0 THEN <<>>
                      ELSE LET delta == Get(choices.v[1], "delta", EmptyDict)
                           IN  Get(delta, "content", JStr(<<>>)).v

RECURSIVE C6_Expected(_)
C6_Expected(ls) ==
    IF Len(ls) = 0 \/ Head(ls) = DataPrefix \o DoneToken THEN <<>>
    ELSE (IF C6_ContentOf(Head(ls)) # <<>> THEN <<C6_ContentOf(Head(ls))>>
          ELSE <<>>) \o C6_Expected(Tail(ls))

\* C6: a call that was not interrupted and whose connection held has
\* yielded, when it ends, exactly the non-empty contents of the well-formed
\* data events before the first `data: [DONE]` line, in order.
C6_FragmentsAreContents ==
    (pc \in {"done", "error"} /\ Streamed /\ ~resp.broken)
        => emitted = C6_Expected(resp.lines)

\* The payloads of the model that are not JSON: a text that begins an
\* object and does not end it, the word NaN, a letter, and bytes that are
\* no text.
C7_NotJson == {JsonMalformed, JsonNaN, BytesEAcute, BytesNotUtf8}

C7_IsMalformed(line) ==
    /\ StartsWith(line, DataPrefix)
    /\ SubSeq(line, 7, Len(line)) \in C7_NotJson

\* C7: the loop body, run on a `data: ` line whose payload is not valid
\* JSON, yields nothing, leaves last_usage as it was, raises nothing and
\* goes on to the next line.
C7_MalformedLineSkipped ==
    [][ (pc = "process" /\ pc' # "process" /\ C7_IsMalformed(resp.lines[idx]))
          => /\ emitted' = emitted
             /\ last_usage' = last_usage
             /\ outcome' = outcome
             /\ pc' = "fetch" ]_vars

\* C8 as stated: after an interrupt() made while the call is in progress
\* the call yields no further fragment.
C8_NoFragmentAfterInterrupt ==
    /\ intr.early => Len(emitted) = 0
    /\ intr.at >= 0 => Len(emitted) = intr.at

\* C8: after an interrupt() made once the call has sent its request, the
\* call yields no further fragment, except the fragment of the one line
\* that had passed the check of the flag when the interrupt arrived.
C8_AtMostTheLineInFlight ==
    intr.at >= 0 =>
        Len(emitted) <= intr.at + (IF intr.pc = "process" THEN 1 ELSE 0)

C8_Witness ==
    /\ pc = "interrupted"
    /\ intr.at >= 1
    /\ intr.pc = "yielded"
    /\ Len(emitted) = intr.at
    /\ idx < Len(resp.lines)
    /\ C6_ContentOf(resp.lines[idx]) # <<>>

\* The state of the spec's machine a position of the generator belongs to.
\* A generator its consumer closed at a fragment boundary (lines 1069-1072)
\* counts as Interrupted.
C11_Phase(p) ==
    CASE p \in {"idle", "start", "setup"}        -> "Idle"
      [] p = "opening"                           -> "Opening"
      [] p \in {"fetch", "process", "yielded"}   -> "Streaming"
      [] p = "done"                              -> "Done"
      [] p = "error"                             -> "Error"
      [] p \in {"interrupted", "closed"}         -> "Interrupted"

C11_Edges ==
    {<<"Idle", "Opening">>, <<"Opening", "Streaming">>, <<"Opening", "Error">>,
     <<"Streaming", "Done">>, <<"Streaming", "Error">>,
     <<"Streaming", "Interrupted">>}

\* C11: within one call the machine moves only along Idle -> Opening ->
\* (Streaming ->) Done | Error | Interrupted; once the call has ended it
\* stays as it is and yields nothing more until chat_stream is called
\* again; and a call is found interrupted only by an interrupt() made after
\* this very call had reset the flag.
C11_StateMachine ==
    [][ /\ (calls' = calls /\ C11_Phase(pc') # C11_Phase(pc))
              => <<C11_Phase(pc), C11_Phase(pc')>> \in C11_Edges
        /\ (calls' = calls /\ pc \in Terminal)
              => (pc' = pc /\ emitted' = emitted)
        /\ (calls' # calls) => (pc \in {"idle"} \cup Terminal /\ pc' = "start"
                                 /\ emitted' = <<>>)
        /\ (pc' = "interrupted") => (intr'.at >= 0)
        /\ (pc = "opening" /\ pc' = "fetch" /\ interrupted') => (intr'.at >= 0)
      ]_vars

C11_Witness ==
    /\ prev = "interrupted"
    /\ pc = "done"
    /\ emitted = << <<"A">> >>

\* The message the claim expects: error.message of the body when the body
\* has one, else the body.
C9_Message(text) ==
    LET parsed == ResponseJson(text)
    IN  IF /\ parsed # <<>>
           /\ parsed[1].t = "dict"
           /\ "error" \in DOMAIN parsed[1].v
           /\ parsed[1].v["error"].t = "dict"
           /\ "message" \in DOMAIN parsed[1].v["error"].v
        THEN parsed[1].v["error"].v["message"].v
        ELSE text

\* C9: a call whose response has a non-success status ends, without
\* reading a line or yielding a fragment, with the API error made of the
\* status code and error.message of the body, or the body itself.
C9_NonSuccessIsApiError ==
    (pc \in Terminal /\ resp.kind = "http" /\ resp.status_code # 200)
        => /\ pc = "error"
           /\ idx = 0
           /\ emitted = <<>>
           /\ outcome = <<ApiError(resp.status_code, C9_Message(resp.text))>>

\* The connection failed under the call: refused at open, or broken after
\* the last line delivered, that line having been processed without error.
C10_NetworkFailed ==
    \/ resp.kind = "refused"
    \/ /\ Streamed
       /\ resp.broken
       /\ idx = Len(resp.lines)
       /\ (idx = 0 \/ ProcessLine(resp.lines[idx], <<>>).kind # "raise")

\* C10: a call that ended in an error reports a network error if and only
\* if the connection failed, reports an API error only for a non-success
\* status, and never reports both.
C10_NetworkAndApiErrorsDistinct ==
    pc = "error" =>
        /\ C10_NetworkFailed <=> IsNetworkError(outcome[1])
        /\ IsApiError(outcome[1]) => (resp.kind = "http" /\ resp.status_code # 200)
        /\ (resp.kind = "http" /\ resp.status_code # 200)
              => ~IsNetworkError(outcome[1])
        /\ ~(IsNetworkError(outcome[1]) /\ IsApiError(outcome[1]))

C10_Witness ==
    /\ pc = "error"
    /\ Streamed /\ resp.broken
    /\ Len(emitted) > 0
    /\ IsNetworkError(outcome[1])
    /\ ~IsApiError(outcome[1])

(***************************************************************************)
(* Claims about the guardrail checks.                                      *)
(***************************************************************************)
CheckCalled == gcall.op \in {"check_input", "check_output"}

\* C12: under strategy none or system, check_input and check_output return
\* (True, "") for every text, the empty one included, send no request and
\* ask nothing.
C12_NoOpGate ==
    (CheckCalled /\ config.guardrail \in {"none", "system"})
        => /\ gcall.result.allowed
           /\ gcall.result.reason = <<>>
           /\ gcall.result.posts = <<>>
           /\ gcall.result.asks = 0

C12_Witness ==
    /\ config.guardrail = "system"
    /\ config.guardrail_check = "both"
    /\ gcall.op = "check_input"
    /\ gcall.text = <<>>
    /\ gcall.reply.kind = "http"
    /\ gcall.reply.json = <<ClassifierBody(JStr(ClsUnsafeS9))>>
    /\ gcall.result = Allowed

C13_Direction == IF gcall.op = "check_input" THEN "input" ELSE "output"

\* C13: under strategy external a check sends one classifier request, for
\* its own text and direction, if and only if the configured direction is
\* its own or both; otherwise it returns (True, "") and sends nothing.
C13_CallIffDirectionSelected ==
    (CheckCalled /\ config.guardrail = "external")
        => /\ (config.guardrail_check \in {C13_Direction, "both"})
                 <=> (Len(gcall.result.posts) = 1)
           /\ (config.guardrail_check \in {C13_Direction, "both"})
                 => gcall.result.posts =
                      <<ClassifierRequest(gcall.text, C13_Direction)>>
           /\ (config.guardrail_check \notin {C13_Direction, "both"})
                 => gcall.result = Allowed

C13_Witness ==
    /\ config.guardrail = "external"
    /\ config.guardrail_check = "output"
    /\ gcall.op = "check_input"
    /\ gcall.reply.kind = "http"
    /\ gcall.reply.json = <<ClassifierBody(JStr(ClsUnsafeS9))>>
    /\ gcall.result = Allowed

\* The classifier was called and answered with status 200 and a text.
C14_Answered ==
    /\ CheckCalled
    /\ gcall.result.posts # <<>>
    /\ gcall.reply.kind = "http"
    /\ gcall.reply.status_code = 200
    /\ \E t \in ClassifierTexts : gcall.reply.json = <<ClassifierBody(JStr(t))>>

C14_Text == gcall.reply.json[1].v["choices"].v[1].v["message"].v["content"].v

C14_BeginsWithSafe(t) ==
    LET s == Strip(t)
    IN  Len(s) >= 4 /\ Lower(SubSeq(s, 1, 4)) = <<"s", "a", "f", "e">>

\* C14: when the classifier answered, the verdict is (True, "") if and only
\* if its text, trimmed and in lower case, begins with safe; every other
\* text, the empty one included, is blocked with a non-empty reason.
C14_SafeIffBeginsWithSafe ==
    C14_Answered
        => /\ gcall.result.allowed <=> C14_BeginsWithSafe(C14_Text)
           /\ gcall.result.allowed => gcall.result.reason = <<>>
           /\ ~gcall.result.allowed => gcall.result.reason # <<>>
           /\ gcall.result.asks = 0

C14_Witness ==
    /\ C14_Answered
    /\ C14_Text = ClsSafePadded
    /\ gcall.result.allowed
    /\ gcall.result.reason = <<>>

\* The classifier was called and the call failed: the request raised, the
\* status was not 200, or the body was not JSON or held no text.
C15_Failed ==
    /\ CheckCalled
    /\ gcall.result.posts # <<>>
    /\ \/ gcall.reply.kind = "raises"
       \/ gcall.reply.status_code # 200
       \/ gcall.reply.json = <<>>
       \/ gcall.reply.json[1] \in {ClassifierBody(JNull), JList(<<>>),
                                   JDict([choices |-> JList(<<>>)])}

\* C15: a failed classifier call asks the user exactly once; the check is
\* allowed if and only if the user approved, and when the user declined it is
\* blocked with the reason `Guardrail check failed: ` followed by the
\* failure.
C15_FailureAsksOnce ==
    C15_Failed
        => /\ gcall.result.asks = 1
           /\ gcall.result.allowed <=> gcall.answer
           /\ gcall.result.allowed => gcall.result.reason = <<>>
           /\ ~gcall.result.allowed =>
                /\ StartsWith(gcall.result.reason, FailurePrefix)
                /\ Len(gcall.result.reason) > Len(FailurePrefix)
                /\ gcall.reply.kind = "raises" =>
                     gcall.result.reason =
                        FailurePrefix \o FailureText(gcall.reply.e)
                /\ (gcall.reply.kind = "http" /\ gcall.reply.status_code # 200)
                     => gcall.result.reason = FailurePrefix \o ErrApiCallFailed

C15_Witness ==
    /\ C15_Failed
    /\ gcall.reply.kind = "raises"
    /\ ~gcall.answer
    /\ ~gcall.result.allowed
    /\ gcall.result.asks = 1

(***************************************************************************)
(* Claims about parse_intent_response.                                     *)
(***************************************************************************)
ParseCalled == gcall.op = "parse_intent_response"

\* The JSON objects with an intent and an appropriate key that a response
\* contains, each with the position it starts at.
C16_ObjectsIn(response) ==
    {x \in (1..Len(response)) \X IntentObjects :
        /\ x[1] + Len(x[2]) - 1 <= Len(response)
        /\ SubSeq(response, x[1], x[1] + Len(x[2]) - 1) = x[2]
        /\ {"intent", "appropriate"} \subseteq DOMAIN ParsedObject(x[2]).v}

C16_First(response) ==
    CHOOSE x \in C16_ObjectsIn(response) :
        \A y \in C16_ObjectsIn(response) : x[1] <= y[1]

C16_Expected(response) ==
    LET x == C16_First(response)
        d == ParsedObject(x[2]).v
        rest == Strip(SubSeq(response, x[1] + Len(x[2]), Len(response)))
    IN  IF d["appropriate"].v
        THEN Parsed(TRUE, d["intent"], rest)
        ELSE IF "reason" \in DOMAIN d /\ d["reason"].v # <<>>
        THEN Parsed(FALSE, JStr(d["intent"].v \o ReasonInfix \o d["reason"].v),
                    <<>>)
        ELSE Parsed(FALSE, d["intent"], <<>>)

\* C16: for a response containing a JSON object with the keys intent and
\* appropriate, appropriate being true or false: if true the result is
\* (True, intent, the trimmed text after the object); if false it is
\* (False, '<intent>. Reason: <reason>' or intent alone, '').
C16_ParsesIntentObject ==
    (/\ ParseCalled
     /\ C16_ObjectsIn(gcall.response) # {}
     /\ ParsedObject(C16_First(gcall.response)[2]).v["appropriate"].t = "bool")
        => gcall.result = C16_Expected(gcall.response)

\* C17 as stated: a response with no JSON object holding both keys, or whose
\* matched span is not valid JSON, is allowed and answered by the whole text.
C17_NoObjectNeverBlocks ==
    (/\ ParseCalled
     /\ \/ C16_ObjectsIn(gcall.response) = {}
        \/ /\ IntentMatch(gcall.response) # <<>>
           /\ SubSeq(gcall.response, IntentMatch(gcall.response)[1],
                     IntentMatch(gcall.response)[2]) \in MalformedSpans)
        => /\ gcall.result.allowed
           /\ gcall.result.actual_response = gcall.response

\* The pattern of line 851 finds a span in the response: from a { to the
\* next }, with "intent" and later "appropriate" inside.
C17_SpanFound(response) ==
    \E i \in 1..Len(response) : \E j \in (i + 1)..Len(response) :
        /\ response[i] = "{" /\ response[j] = "}"
        /\ \A k \in (i + 1)..(j - 1) : response[k] # "}"
        /\ \E p \in (i + 1)..j : \E q \in (p + Len(KeyIntent))..j :
              /\ SubSeq(response, p, p + Len(KeyIntent) - 1) = KeyIntent
              /\ q + Len(KeyAppropriate) <= j
              /\ SubSeq(response, q, q + Len(KeyAppropriate) - 1)
                    = KeyAppropriate

\* C17: when the pattern finds no span, the result is (True, 'Intent analysis
\* not found', the whole text); when the span it finds is not valid JSON,
\* the result is (True, 'Intent parsing failed', the whole text).
C17_FallbackNeverBlocks ==
    ParseCalled
        => /\ ~C17_SpanFound(gcall.response)
                => gcall.result =
                     Parsed(TRUE, JStr(IntentNotFound), gcall.response)
           /\ (/\ C17_SpanFound(gcall.response)
               /\ SubSeq(gcall.response, IntentMatch(gcall.response)[1],
                         IntentMatch(gcall.response)[2]) \in MalformedSpans)
                => gcall.result =
                     Parsed(TRUE, JStr(IntentParsingFailed), gcall.response)

C17_Witness ==
    /\ ParseCalled
    /\ gcall.response = TextPre \o ObjMalformed \o TextAnswer
    /\ gcall.result.allowed
    /\ gcall.result.actual_response = gcall.response

\* C18: the value of appropriate in the object the pattern matched decides
\* the verdict: true, "true" and 1 allow; false, "false" and 0 block.
C18_AppropriateValues ==
    (/\ ParseCalled
     /\ C16_ObjectsIn(gcall.response) # {}
     /\ IntentMatch(gcall.response) =
            <<C16_First(gcall.response)[1],
              C16_First(gcall.response)[1]
                 + Len(C16_First(gcall.response)[2]) - 1>>)
        => LET v == ParsedObject(C16_First(gcall.response)[2]).v["appropriate"]
           IN  /\ v \in {JBool(TRUE), JStr(<<"t", "r", "u", "e">>), JInt(1)}
                     => gcall.result.allowed
               /\ v \in {JBool(FALSE), JStr(<<"f", "a", "l", "s", "e">>), JInt(0)}
                     => ~gcall.result.allowed

(***************************************************************************)
(* Claims about the order of a turn.                                       *)
(***************************************************************************)
\* The messages the current turn has appended to the buffer.
AppendedInTurn == SubSeq(messages, Len(snap.messages) + 1, Len(messages))

\* C19: in a turn the input check comes first, and the buffer changes and
\* the gateway is called only after it returned allowed; after a blocked
\* verdict the turn does nothing more and ends with the buffer, the usage
\* ledger and the number of gateway calls as they were when it began.
C19_InputCheckFirst ==
    turns > 0 =>
        /\ trace # <<>>
        /\ trace[1].ev \in {"input_allowed", "input_blocked"}
        /\ trace[1].text = user_message
        /\ (messages # snap.messages \/ calls # snap.calls)
              => trace[1].ev = "input_allowed"
        /\ trace[1].ev = "input_blocked" =>
              /\ Len(trace) = 1
              /\ tpc \in {"blocked", "idle", "exited"}
              /\ messages = snap.messages
              /\ tracker = snap.tracker
              /\ calls = snap.calls

C19_Witness ==
    /\ turns = 2
    /\ tpc = "idle"
    /\ config.guardrail = "external"
    /\ trace = <<Event("input_blocked", TextHi)>>
    /\ Len(messages) = 2
    /\ messages = snap.messages
    /\ calls = 1

RECURSIVE Concat(_)
\* ''.join(fragments)
Concat(fragments) ==
    IF fragments = <<>> THEN <<>>
    ELSE Head(fragments) \o Concat(Tail(fragments))

\* C20: the buffer gets an assistant message in a turn only when the check
\* of the response (the parse, under intent) returned allowed, the response
\* checked being everything the finished stream gave; after a blocked
\* verdict the turn appends no assistant message.
C20_AssistantAfterApproval ==
    turns > 0 =>
        LET assistants == {i \in 1..Len(AppendedInTurn) :
                              AppendedInTurn[i].role = "assistant"}
        IN  /\ messages = snap.messages \o AppendedInTurn
            /\ Cardinality(assistants) <= 1
            /\ assistants # {} =>
                  /\ pc = "done"
                  /\ \E k \in 1..Len(trace) :
                        /\ trace[k].ev = "output_allowed"
                        /\ trace[k].text = Concat(emitted)
                        /\ \A j \in 1..k : trace[j].ev # "add_assistant"
            /\ "output_blocked" \in Events(trace) => assistants = {}

C20_Witness ==
    /\ tpc = "idle"
    /\ config.guardrail = "external"
    /\ config.guardrail_check = "both"
    /\ Event("output_allowed", <<"A", "B">>) \in {trace[k] : k \in 1..Len(trace)}
    /\ messages[Len(messages)] = Message("assistant", <<"A", "B">>)

\* The current turn called the gateway and its stream ended by itself.
StreamCompleted == calls = snap.calls + 1 /\ pc = "done"

\* C21: with cost tracking on, a turn whose stream completed with a usage
\* record adds that record's prompt and completion tokens to the ledger
\* once, after the stream has ended, whatever the verdict on the response;
\* until then the ledger is as it was when the turn began.
C21_UsageTrackedOnce ==
    (turns > 0 /\ config.show_cost) =>
        /\ tracker # snap.tracker =>
              /\ tpc \in {"input_added", "finally", "idle", "exiting",
                          "exited"}
              /\ pc \in Terminal
        /\ (StreamCompleted /\ last_usage # <<>> /\ tpc = "idle") =>
              /\ tracker.total_input_tokens =
                    snap.tracker.total_input_tokens + last_usage[1].prompt_tokens
              /\ tracker.total_output_tokens =
                    snap.tracker.total_output_tokens
                       + last_usage[1].completion_tokens

C21_Witness ==
    /\ config.show_cost
    /\ config.guardrail = "external"
    /\ turns = 2
    /\ tpc = "idle"
    /\ StreamCompleted
    /\ "output_blocked" \in Events(trace)
    /\ snap.tracker = [total_input_tokens |-> 1, total_output_tokens |-> 2]
    /\ tracker = [total_input_tokens |-> 2, total_output_tokens |-> 4]

\* C22: when the loop of the turn sees the ESC flag, the response collected
\* so far is not appended, no check or parse is run on it, and the turn ends
\* without an error.
C22_InterruptDiscardsPartial ==
    (turns > 0 /\ "interrupted" \in Events(trace)) =>
        /\ \A i \in 1..Len(AppendedInTurn) : AppendedInTurn[i].role # "assistant"
        /\ Events(trace) \cap {"output_allowed", "output_blocked",
                               "add_assistant", "error"} = {}
        /\ tpc \in {"after_loop", "usage", "input_added", "finally", "idle",
                    "exiting", "exited"}
        /\ pc = "closed"
        /\ outcome = <<>>

C22_Witness ==
    /\ tpc = "idle"
    /\ config.guardrail = "none"
    /\ Event("interrupted", <<"A">>) \in {trace[k] : k \in 1..Len(trace)}
    /\ messages[Len(messages)] = Message("user", user_message)

\* The turn is over: _process_message returned to the loop of chat(), or
\* the user's Ctrl-C ended the program.
C23_Over == tpc \in {"idle", "exited"}

\* C23: whatever a turn does, it comes to its end with the session loop
\* waiting for the next input.  No turn leaves chat() by an exception of
\* its own: the session ends by the user's Ctrl-C only.  Every turn that
\* has begun returns to the loop unless the question of line 837 is left
\* without an answer, and returns in every case if the user answers the
\* questions asked.
C23_SessionSurvives ==
    /\ [](tpc # "crashed")
    /\ [][(tpc \notin {"exiting", "exited"} /\ tpc' \in {"exiting", "exited"})
            => handle_sigint]_vars
    /\ [](~C23_Over => <>(C23_Over \/ tpc = "asking"))
    /\ WF_vars(AnswerPrompt) => [](~C23_Over => <>C23_Over)

C23_Witness ==
    /\ turns = 2
    /\ tpc = "loop"
    /\ prev = "error"
    /\ outcome = <<>>

(***************************************************************************)
(* Claims about the cost ledger.                                           *)
(***************************************************************************)
RECURSIVE SumOf(_, _)
\* The sum of the k-th arguments of the calls in a trace of add_usage.
SumOf(tr, k) == IF tr = <<>> THEN 0 ELSE tr[1][k] + SumOf(Tail(tr), k)

\* C24: after any sequence of add_usage calls with non-negative arguments
\* the two totals are the sums of the arguments given so far, and no step
\* ever makes a total smaller.
C24_TotalsAreSums ==
    /\ [](/\ tracker.total_input_tokens = SumOf(trace, 1)
          /\ tracker.total_output_tokens = SumOf(trace, 2))
    /\ [][/\ tracker'.total_input_tokens >= tracker.total_input_tokens
          /\ tracker'.total_output_tokens >= tracker.total_output_tokens]_vars

C24_Witness ==
    /\ trace = <<(<<18, 42>>), (<<0, 1>>)>>
    /\ tracker.total_input_tokens = 18
    /\ tracker.total_output_tokens = 43

\* a <= b for whole numbers given by their digits
BigLeq(a, b) ==
    \/ Len(a) < Len(b)
    \/ /\ Len(a) = Len(b)
       /\ \/ a = b
          \/ LET top == CHOOSE i \in 1..Len(a) :
                            /\ a[i] # b[i]
                            /\ \A j \in (i + 1)..Len(a) : a[j] = b[j]
             IN  a[top] < b[top]

\* |a - b| <= t
BigClose(a, b, t) == BigLeq(a, BigAdd(b, t)) /\ BigLeq(b, BigAdd(a, t))

\* Binary places that hold every cost and every price of the ledger.
FracBits == 2 * MantissaBits

\* x * 2^FracBits of a double x, a whole number
Scaled(x) == ShiftLeft(x.m, x.e - (MantissaBits - 1) + FracBits)

\* t * 2^FracBits * 10^6 for the tolerance t = 10^-4 of spec 4.2
Tolerance == ShiftLeft(BigOf(Million \div 10000), FracBits)

\* 10^6 * 2^FracBits times the exact tokens * price / 10^6
ExactProduct(tokens, price) == BigMul(tokens, Scaled(price))

\* The same multiple of a cost that get_cost returned.
ExactCost(cost) == BigMul(Scaled(cost), BigOf(Million))

GotCost == gcall.op = "get_cost"

\* C25: get_cost returns None for an unlisted model; for a listed one it
\* reports the two totals, an input_cost and an output_cost that are
\* tokens * price / 10^6 within the tolerance 10^-4 of the cost contract,
\* and a total_cost that is their floating-point sum and within the same
\* tolerance of the exact sum; the prices 1.00/5.00 with the totals
\* 1000000/2000000 give exactly 1.0, 10.0 and 11.0.  A call of get_cost
\* changes no total, and a call that follows a call of get_cost with no
\* add_usage in between returns what that one returned.
C25_CostIsProductPerMillion ==
    /\ [](GotCost =>
            /\ Pricing(tracker.model) = <<>> => gcall.result = <<>>
            /\ Pricing(tracker.model) # <<>> =>
                 LET pricing == Pricing(tracker.model)[1]
                     cost    == gcall.result[1]
                     inp     == ExactProduct(tracker.total_input_tokens,
                                             pricing.input)
                     out     == ExactProduct(tracker.total_output_tokens,
                                             pricing.output)
                 IN  /\ gcall.result # <<>>
                     /\ cost.input_tokens = tracker.total_input_tokens
                     /\ cost.output_tokens = tracker.total_output_tokens
                     /\ BigClose(ExactCost(cost.input_cost), inp, Tolerance)
                     /\ BigClose(ExactCost(cost.output_cost), out, Tolerance)
                     /\ cost.total_cost
                          = FAdd(cost.input_cost, cost.output_cost)
                     /\ BigClose(ExactCost(cost.total_cost),
                                 BigAdd(inp, out), Tolerance)
                     /\ (/\ tracker.model = ModelHaiku
                         /\ tracker.total_input_tokens = BigOf(Million)
                         /\ tracker.total_output_tokens = BigOf(2 * Million))
                        => /\ cost.input_cost = DoubleOf(1)
                           /\ cost.output_cost = DoubleOf(10)
                           /\ cost.total_cost = DoubleOf(11))
    /\ [][gcall'.op = "get_cost" =>
            /\ tracker' = tracker
            /\ GotCost => gcall'.result = gcall.result]_vars

\* get_cost called twice in a row for 2^53 + 1 input tokens and 3 output
\* tokens of the 1.00/5.00 model: the input cost is 9007199254.740993, the
\* exact quotient rounded once, which is the double next above
\* float(2^53) / 10^6, what rounding the total before dividing would give.
C25_Witness ==
    /\ GotCost
    /\ gcall.earlier # <<>>
    /\ tracker = AddUsageDigits(NewLedger(ModelHaiku), AboveDoubles, BigOf(3))
    /\ gcall.result[1].input_cost
         = DoubleAbove(FDiv(RoundBig(ShiftLeft(<<1>>, MantissaBits), 0, FALSE),
                            Million))
    /\ gcall.result[1].output_cost # DoubleZero

(***************************************************************************)
(* Claims about the formatting of guardrail reasons.                       *)
(***************************************************************************)
\* The codes written in a text: the places <<i, j>> of S and its digits.
CodesIn(reason) ==
    {<<i, DigitsEnd(reason, i + 1)>> : i \in
        {k \in 1..(Len(reason) - 1) :
           reason[k] = "S" /\ reason[k + 1] \in Digits}}

\* The codes S1 to S14 written in a text.
KnownCodesIn(reason) ==
    {c \in CodesIn(reason) :
       CategoryName(SubSeq(reason, c[1] + 1, c[2])) # UnknownCategory}

FirstOf(codes) == CHOOSE c \in codes : \A d \in codes : c[1] <= d[1]

\* The reason made of the code at place c of a text.
NamedReason(reason, c) ==
    CategoryName(SubSeq(reason, c[1] + 1, c[2]))
    \o <<" ", "(">> \o SubSeq(reason, c[1], c[2]) \o <<")">>

Mentions(reason, c) ==
    Contains(Lower(reason),
             Lower(CategoryName(SubSeq(reason, c[1] + 1, c[2]))))

Formatted == gcall.op = "format_guardrail_reason"

\* C26 as stated: a text with a code S1..S14 gives '<CategoryName> (S<k>)'
\* for the first such code, or the text without its leading unsafe when it
\* mentions that category name; a text without S-code gives the text
\* without its leading unsafe, or the default when nothing remains; the
\* reason is never empty.
C26_FirstKnownCodeNamed ==
    Formatted =>
        LET reason  == gcall.reason
            cleaned == Strip(RemoveUnsafePrefix(reason))
        IN  /\ gcall.result # <<>>
            /\ KnownCodesIn(reason) # {} =>
                 LET c == FirstOf(KnownCodesIn(reason))
                 IN  gcall.result = IF Mentions(reason, c) THEN cleaned
                                    ELSE NamedReason(reason, c)
            /\ CodesIn(reason) = {} =>
                 gcall.result = IF cleaned # <<>> THEN cleaned
                                ELSE DefaultBlockReason

\* C26, amended: the first S<digits> in the text decides.  Its category is
\* that of the table for S1..S14 and Unknown Category for any other number;
\* the reason is '<Category> (S<digits>)', or the trimmed text without its
\* leading unsafe when the text mentions that category.  A text without
\* S<digits> gives the trimmed text without its leading unsafe, or the
\* default when nothing remains.  The reason is never empty.
C26_FirstCodeNamed ==
    Formatted =>
        LET reason  == gcall.reason
            cleaned == Strip(RemoveUnsafePrefix(reason))
        IN  /\ gcall.result # <<>>
            /\ CodesIn(reason) # {} =>
                 LET c == FirstOf(CodesIn(reason))
                 IN  gcall.result = IF Mentions(reason, c) THEN cleaned
                                    ELSE NamedReason(reason, c)
            /\ CodesIn(reason) = {} =>
                 gcall.result = IF cleaned # <<>> THEN cleaned
                                ELSE DefaultBlockReason

\* An unknown code written before a known one.
C26_Witness ==
    /\ Formatted
    /\ gcall.reason = OpenUnsafeLine \o BodyS99S1
    /\ gcall.result = UnknownCategory \o <<" ", "(", "S", "9", "9", ")">>

(***************************************************************************)
(* Claims about the masking of secrets in error texts.                     *)
(***************************************************************************)
Sanitized == gcall.op = "sanitize_error_message"

\* A character of the secret is left in the text.
ShowsSecret(text) == \E k \in 1..Len(text) : text[k] \in SecretChars

\* C27: the sanitized text contains neither the configured token nor any
\* part of a token that followed Bearer or a key-like query parameter.
C27_SecretsMasked ==
    Sanitized =>
        /\ gcall.api_token # <<>> => ~Contains(gcall.result, gcall.api_token)
        /\ gcall.place \in BearerPlaces \cup ParamPlaces
             => ~ShowsSecret(gcall.result)

(***************************************************************************)
(* Claims about the keyboard monitor.                                      *)
(***************************************************************************)
\* C28: at no time are two monitor threads alive, also when start() is
\* called while the thread of an earlier start() has not yet exited.
C28_OneMonitorThread == Cardinality(monitor.alive) <= 1

(***************************************************************************)
(* Claims about the end of a stream.                                       *)
(***************************************************************************)
DoneLine == DataPrefix \o DoneToken

\* C29: the line data: [DONE] ends the stream successfully; the lines after
\* it yield no fragment and change no usage record, and no further line is
\* read.
C29_DoneEndsStream ==
    [][ /\ (pc = "process" /\ pc' # "process" /\ resp.lines[idx] = DoneLine)
           => /\ pc' = "done"
              /\ outcome' = <<>>
              /\ <<emitted', last_usage', idx'>> = <<emitted, last_usage, idx>>
        /\ (pc = "done" /\ calls' = calls)
           => <<pc', outcome', emitted', last_usage', idx'>>
                = <<pc, outcome, emitted, last_usage, idx>> ]_vars

\* A stream ended by [DONE] with a content line still unread behind it, on
\* a connection that would break.
C29_Witness ==
    /\ pc = "done"
    /\ outcome = <<>>
    /\ idx < Len(resp.lines)
    /\ resp.lines[idx] = DoneLine
    /\ resp.lines[idx + 1] = DataPrefix \o JsonContentB
    /\ resp.broken
    /\ emitted # <<>>

\* A data line whose payload is a JSON object without content to show.
C30_NoContent(line) ==
    /\ StartsWith(line, DataPrefix)
    /\ line # DoneLine
    /\ JsonLoads(SubSeq(line, 7, Len(line))) # <<>>
    /\ JsonLoads(SubSeq(line, 7, Len(line)))[1].t = "dict"
    /\ C6_ContentOf(line) = <<>>

\* C30: the loop body, run on a well-formed data event whose
\* choices[0].delta.content is absent or empty (empty delta, empty choices
\* list, usage only), yields nothing, raises nothing and goes on to the
\* next line.
C30_EmptyEventSkipped ==
    [][ (pc = "process" /\ pc' # "process" /\ C30_NoContent(resp.lines[idx]))
          => /\ emitted' = emitted
             /\ outcome' = outcome
             /\ pc' = "fetch" ]_vars

(***************************************************************************)
(* Claims about the usage record of a stream.                              *)
(***************************************************************************)
\* The value of the usage field of a line, <<v>>, when the line is a data
\* event that parses to an object with that field; <<>> otherwise.
C31_UsageField(line) ==
    IF ~StartsWith(line, DataPrefix) \/ line = DoneLine THEN <<>>
    ELSE LET parsed == JsonLoads(SubSeq(line, 7, Len(line)))
         IN  IF parsed = <<>> THEN <<>>
             ELSE IF parsed[1].t # "dict" THEN <<>>
             ELSE IF "usage" \notin DOMAIN parsed[1].v THEN <<>>
             ELSE <<parsed[1].v["usage"]>>

\* The three counts of a usage object, a missing one read as 0.
C31_Counts(u) ==
    [prompt_tokens |-> IF "prompt_tokens" \in DOMAIN u.v
                       THEN u.v["prompt_tokens"].v ELSE 0,
     completion_tokens |-> IF "completion_tokens" \in DOMAIN u.v
                           THEN u.v["completion_tokens"].v ELSE 0,
     total_tokens |-> IF "total_tokens" \in DOMAIN u.v
                      THEN u.v["total_tokens"].v ELSE 0]

\* The pending record after the first k lines when every usage object
\* replaces it.
RECURSIVE C31_LastObject(_, _)
C31_LastObject(lines, k) ==
    IF k = 0 THEN <<>>
    ELSE LET f == C31_UsageField(lines[k])
         IN  IF f # <<>> /\ f[1].t = "dict" THEN <<C31_Counts(f[1])>>
             ELSE C31_LastObject(lines, k - 1)

\* The pending record after the first k lines when every non-empty usage
\* object replaces it.
RECURSIVE C31_LastNonEmpty(_, _)
C31_LastNonEmpty(lines, k) ==
    IF k = 0 THEN <<>>
    ELSE LET f == C31_UsageField(lines[k])
         IN  IF f # <<>> /\ f[1].t = "dict" /\ DOMAIN f[1].v # {}
             THEN <<C31_Counts(f[1])>>
             ELSE C31_LastNonEmpty(lines, k - 1)

\* The lines of the current call the loop body has run on.
C31_Processed ==
    IF pc \in {"process", "interrupted"} THEN idx - 1 ELSE idx

\* C31 as stated: once the response is open, last_usage is the record of
\* the last event processed that carried a usage object (missing counts
\* read as 0), every such event replacing the pending record; so it is when
\* the stream ends.
C31_LastUsageFieldWins ==
    (pc \in {"fetch", "process", "yielded"} \cup Terminal /\ resp.kind = "http"
       /\ resp.status_code = 200)
      => last_usage = C31_LastObject(resp.lines, C31_Processed)

\* C31 amended: once the response is open, last_usage is the record of the
\* last event processed whose usage field was a non-empty object; an event
\* without the field, or with a null or empty one, leaves it unchanged.
C31_LastNonEmptyUsageWins ==
    (pc \in {"fetch", "process", "yielded"} \cup Terminal /\ resp.kind = "http"
       /\ resp.status_code = 200)
      => last_usage = C31_LastNonEmpty(resp.lines, C31_Processed)

\* A stream ended by [DONE] in which a record without total_tokens replaced
\* an earlier record.
C31_Witness ==
    /\ pc = "done"
    /\ idx = 3
    /\ resp.lines[1] = DataPrefix \o JsonUsageOnly
    /\ resp.lines[2] = DataPrefix \o JsonEmptyContentUsage
    /\ resp.lines[3] = DoneLine
    /\ last_usage = <<[prompt_tokens |-> 3, completion_tokens |-> 5,
                       total_tokens |-> 0]>>

\* The current turn called the gateway.
C32_Called == calls = snap.calls + 1

\* The usage record of the current turn's own stream: the last non-empty
\* usage object among the lines its loop body ran on.
C32_OwnUsage ==
    IF C32_Called /\ resp.kind = "http" /\ resp.status_code = 200
    THEN C31_LastNonEmpty(resp.lines, C31_Processed)
    ELSE <<>>

\* The ledger after a turn that began with ledger t and counted usage u.
C32_Plus(t, u) ==
    IF u = <<>> THEN t
    ELSE [total_input_tokens |-> t.total_input_tokens + u[1].prompt_tokens,
          total_output_tokens |-> t.total_output_tokens
                                    + u[1].completion_tokens]

\* C32 as stated: after a turn that called the gateway, last_usage is that
\* turn's own record (empty if its stream carried none or failed at open),
\* and the ledger has grown by it if the stream completed, and not at all
\* otherwise.
C32_LedgerSumsCompletedTurns ==
    (turns > 0 /\ tpc = "idle") =>
        /\ C32_Called => last_usage = C32_OwnUsage
        /\ tracker = IF C32_Called /\ pc = "done"
                     THEN C32_Plus(snap.tracker, C32_OwnUsage)
                     ELSE snap.tracker

\* C32 amended: after a turn that called the gateway, last_usage is that
\* turn's own record (empty if its stream carried none or failed at open),
\* and the ledger has grown by it if the stream completed or was
\* interrupted, and not at all if it ended in an error.
C32_LedgerSumsOwnUsage ==
    (turns > 0 /\ tpc = "idle") =>
        /\ C32_Called => last_usage = C32_OwnUsage
        /\ tracker = IF C32_Called /\ pc \in {"done", "closed", "interrupted"}
                     THEN C32_Plus(snap.tracker, C32_OwnUsage)
                     ELSE snap.tracker

\* A second turn whose request was refused, after a turn that put 1 and 2
\* tokens on the ledger.
C32_Witness ==
    /\ turns = 2
    /\ tpc = "idle"
    /\ C32_Called
    /\ resp.kind = "refused"
    /\ pc = "error"
    /\ last_usage = <<>>
    /\ snap.tracker = [total_input_tokens |-> 1, total_output_tokens |-> 2]
    /\ tracker = snap.tracker

(***************************************************************************)
(* Claims about the interrupt flag of the keyboard monitor.                *)
(***************************************************************************)
\* KeyboardMonitor.is_interrupted, lines 72-74, on the monitor m.
C33_is_interrupted(m) == m.interrupted

\* C33: once a monitor thread has set the flag, is_interrupted() stays True
\* until the next start(): the only step that makes it False is start(),
\* and the only step that makes it True is a monitor thread reading ESC;
\* stop() and further key presses leave it as it is.
C33_FlagOneWay ==
    [][ /\ (C33_is_interrupted(monitor) /\ ~C33_is_interrupted(monitor'))
             => monitor' = start(monitor)
        /\ (~C33_is_interrupted(monitor) /\ C33_is_interrupted(monitor'))
             => \E t \in monitor.looping :
                  monitor' = [monitor EXCEPT !.interrupted = TRUE,
                                             !.looping = @ \ {t}] ]_vars

\* The flag still set after the stop() of the turn, with the thread of an
\* earlier start() gone and that of the last one joined.
C33_Witness ==
    /\ tpc = "idle"
    /\ monitor.interrupted
    /\ ~monitor.monitoring
    /\ monitor.started = 2
    /\ monitor.alive = {}

(***************************************************************************)
(* Claims about the turn and the ESC key.                                  *)
(***************************************************************************)
\* C34: a turn whose stream ran to its end, every fragment taken by the
\* loop with the ESC flag not seen at any of them, and whose response is
\* not empty, has its response checked, and appended unless the check
\* blocked it: an ESC after the last fragment does not drop the response.
C34_CompletedResponseKept ==
    (/\ turns > 0
     /\ tpc = "idle"
     /\ StreamCompleted
     /\ consumed = Len(emitted)
     /\ "interrupted" \notin Events(trace)
     /\ Concat(emitted) # <<>>)
      => \/ "output_blocked" \in Events(trace)
         \/ /\ "add_assistant" \in Events(trace)
            /\ AppendedInTurn # <<>>
            /\ AppendedInTurn[Len(AppendedInTurn)].role = "assistant"

(***************************************************************************)
(* Claims about the session.                                               *)
(***************************************************************************)
\* The system message TerminalChat seeds under the strategy of cfg.
C35_SystemMessage(cfg) ==
    IF cfg.guardrail = "intent" THEN Message("system", IntentPromptText)
    ELSE Message("system", SystemPromptText)

\* C35: under system or intent, the messages of every request to the
\* gateway begin with the configured system prompt (the intent prompt
\* under intent), whatever turns and /clear commands came before.
C35_RequestsCarrySystemPrompt ==
    (/\ config.guardrail \in {"system", "intent"}
     /\ turns > 0
     /\ calls = snap.calls + 1
     /\ pc \in Running)
      => /\ ret # <<>>
         /\ ret[1] # <<>>
         /\ ret[1][1] = C35_SystemMessage(config)

\* No user message of the list msgs is longer than max_input_length.
C36_WithinLimit(msgs) ==
    \A i \in 1..Len(msgs) :
        msgs[i].role = "user" => Len(msgs[i].content) <= max_input_length

\* C36: no user message longer than max_input_length is given to the
\* input check, appended to the buffer or sent to the gateway, whether it
\* was typed at the prompt or given on the command line.
C36_NoLongMessage ==
    /\ \A k \in 1..Len(trace) :
          trace[k].ev \in {"input_allowed", "input_blocked", "add_user"}
             => Len(trace[k].text) <= max_input_length
    /\ C36_WithinLimit(messages)
    /\ ret # <<>> => C36_WithinLimit(ret[1])

(***************************************************************************)
(* Claims about the order of the buffer.                                   *)
(***************************************************************************)
RECURSIVE C37_IsSubsequence(_, _)
\* a is b with some elements left out: the elements of a are elements of
\* b at increasing positions.
C37_IsSubsequence(a, b) ==
    IF a = <<>> THEN TRUE
    ELSE IF b = <<>> THEN FALSE
    ELSE IF Head(a) = Head(b) THEN C37_IsSubsequence(Tail(a), Tail(b))
    ELSE C37_IsSubsequence(a, Tail(b))

\* C37: for every capacity, an add_message leaves the earlier buffer with
\* the new message at its end, some messages left out, none repeated and
\* none out of order, and nothing left out when the capacity is not
\* exceeded; so the buffer is always an in-order subsequence, without
\* repeats, of the messages appended since the last clear().
C37_InOrderSubsequence ==
    lastOp.op = "add" =>
        /\ C37_IsSubsequence(messages, Append(pre, lastOp.msg))
        /\ Len(pre) + 1 <= max_messages => messages = Append(pre, lastOp.msg)

(***************************************************************************)
(* Claims about what a failed turn leaves in the buffer.                   *)
(***************************************************************************)
\* The finished turn passed the input check and then ended in a stream
\* error, an ESC, an empty response or a blocked response.
C38_Failed ==
    /\ turns > 0
    /\ tpc = "idle"
    /\ trace # <<>>
    /\ trace[1].ev = "input_allowed"
    /\ Events(trace) \cap {"error", "interrupted", "not_checked",
                           "output_blocked"} # {}

\* C38: a turn that passed the input check and failed afterwards leaves
\* the buffer as it was before the turn with the user message of the turn
\* added and no assistant message; and a request that follows a buffer
\* ending in a user message carries that message and the new user message
\* one after the other.
C38_FailedTurnKeepsUserMessage ==
    /\ C38_Failed =>
          messages = AddMessageResult(snap.messages, max_messages, "user",
                                      user_message)
    /\ (/\ turns > 0
        /\ calls = snap.calls + 1
        /\ pc \in Running
        /\ snap.messages # <<>>
        /\ snap.messages[Len(snap.messages)].role = "user")
         => /\ ret = <<Append(snap.messages, Message("user", user_message))>>
            /\ ret[1][Len(ret[1]) - 1].role = "user"
            /\ ret[1][Len(ret[1])].role = "user"

\* The request of a second turn, after a first turn whose stream raised an
\* error: two user messages, one after the other.
C38_Witness ==
    /\ turns = 2
    /\ tpc = "loop"
    /\ pc = "opening"
    /\ prev = "error"
    /\ config.guardrail = "none"
    /\ ret = <<<<Message("user", TextHi), Message("user", TextHi)>>>>

(***************************************************************************)
(* Claims about the content of assistant messages.                         *)
(***************************************************************************)
\* C39: no assistant message with empty content is appended to the buffer,
\* under any strategy, also when an intent response is nothing but the
\* JSON analysis.
C39_NoEmptyAssistantMessage ==
    /\ \A i \in 1..Len(messages) :
          messages[i].role = "assistant" => messages[i].content # <<>>
    /\ \A k \in 1..Len(trace) :
          trace[k].ev = "add_assistant" => trace[k].text # <<>>

(***************************************************************************)
(* Claims about a stream without [DONE].                                   *)
(***************************************************************************)
\* The response was opened with success and its lines end, without a
\* [DONE] line among them and without a failure of the connection.
C40_EndsWithoutDone ==
    /\ Streamed
    /\ ~resp.broken
    /\ \A i \in 1..Len(resp.lines) : resp.lines[i] # DoneLine

\* C40: a call that nobody interrupted or closed, on lines that end without
\* [DONE], ends normally, with no error, after every line was read and
\* with the fragments of all its events emitted.
C40_EndOfLinesIsCompletion ==
    (/\ C40_EndsWithoutDone
     /\ pc \in Terminal \ {"closed"}
     /\ ~interrupted
     /\ intr = NoIntr)
      => /\ pc = "done"
         /\ outcome = <<>>
         /\ idx = Len(resp.lines)
         /\ emitted = C6_Expected(resp.lines)

====
